---- MODULE Spec2Model ----
(***************************************************************************)
(* Model of the construction-material recommender: the scoring engine of   *)
(* data_utils.py, the built-in catalog of material_data.py and the         *)
(* MaterialRecommender facade of model.py.                                 *)
(*                                                                         *)
(* Numbers.  The program computes in floating point; the model computes in *)
(* fixed point.  Sub-scores and total_score are integers in units of       *)
(* 1/SCALE (10.0 is 10 * SCALE).  thermal_conductivity, fire resistance    *)
(* hours and the fire resistance requirement carry two decimals in the     *)
(* source and are held in units of 1/100.  A division x / y of the source  *)
(* is the integer division of the scaled operands.                         *)
(***************************************************************************)
EXTENDS Integers, Sequences, FiniteSets, TLC

VARIABLES
    materials_df,      \* self.materials_df: the catalog, a sequence of rows
    scaled_features,   \* self.scaled_features: standardized feature matrix
    rf_model,          \* self.rf_model: None or a RandomForestRegressor
    trained,           \* self.trained
    sort_ties,         \* how this build's quicksort orders equal keys
    last,              \* the call in progress: its arguments and its outcome
    user_projects,     \* db_utils: table user_projects, latest update first
    next_project_id,   \* db_utils: the next value of user_projects.id
    users,             \* db_utils: table users
    procs,             \* db_utils: the register_user calls in progress
    projects,          \* flask_app: table projects
    recommendations,   \* flask_app: table recommendations
    selected_materials, \* app.py: st.session_state.selected_materials
    session            \* flask_app: the session cookie of the browser

recommender_vars ==
    <<materials_df, scaled_features, rf_model, trained, sort_ties>>

db_vars == <<user_projects, next_project_id, users, procs>>

web_vars == <<projects, recommendations, selected_materials, session>>

vars == <<recommender_vars, last, db_vars, web_vars>>

-----------------------------------------------------------------------------
(* Bounds and units *)

SCALE == 1000
MaxCatalog == 2
MaxN == 16
MaxHistory == 6

None == "None"
NoBudget == -1

-----------------------------------------------------------------------------
(* Small helpers *)

Min2(a, b) == IF a <= b THEN a ELSE b

Max2(a, b) == IF a >= b THEN a ELSE b

Clip(x, lo, hi) == IF x < lo THEN lo ELSE IF x > hi THEN hi ELSE x

RECURSIVE SumSeq(_)
SumSeq(s) == IF s = <<>> THEN 0 ELSE Head(s) + SumSeq(Tail(s))

RECURSIVE SumSet(_, _)
SumSet(f, S) ==
    IF S = {} THEN 0
    ELSE LET x == CHOOSE y \in S : TRUE IN f[x] + SumSet(f, S \ {x})

Range(s) == {s[i] : i \in DOMAIN s}

-----------------------------------------------------------------------------
(* material_data.py: the built-in catalog *)

MATERIAL_TYPES ==
    {"Concrete", "Steel", "Wood", "Brick", "Glass", "Aluminum",
     "Stone", "Ceramic", "Plastic", "Composite"}

APPLICATIONS ==
    {"Foundation", "Structural", "Roofing", "Flooring", "Wall",
     "Insulation", "Facade", "Windows", "Doors", "Interior Finishing"}

Weather(h, c, hu, u) == [heat |-> h, cold |-> c, humidity |-> hu, uv |-> u]

\* One catalog row.  tc and fire are in units of 1/100.
Material(i, ty, apps, st, du, tc, fire, wa, eco, cost, av, ma, wr, ic) ==
    [id |-> i, type |-> ty, applications |-> apps, strength_mpa |-> st,
     durability_years |-> du, thermal_conductivity |-> tc,
     fire_resistance_hours |-> fire, water_resistance |-> wa,
     eco_friendly_score |-> eco, cost_per_unit |-> cost, availability |-> av,
     maintenance_requirement |-> ma, weather_resistance |-> wr,
     installation_complexity |-> ic]

generate_material_database ==
    << Material(1, "Concrete", {"Foundation", "Structural", "Flooring"},
                25, 50, 170, 400, 8, 4, 110, 9, 3, Weather(9, 7, 8, 8), 5),
       Material(2, "Concrete", {"Foundation", "Structural"},
                60, 75, 160, 450, 9, 3, 180, 7, 2, Weather(9, 8, 9, 8), 6),
       Material(3, "Steel", {"Structural"},
                400, 60, 4500, 50, 4, 6, 2000, 8, 5, Weather(6, 8, 3, 7), 7),
       Material(4, "Steel", {"Structural", "Facade"},
                290, 100, 1600, 75, 9, 7, 4500, 6, 2, Weather(9, 9, 9, 9), 8),
       Material(5, "Wood", {"Structural", "Flooring"},
                85, 25, 12, 75, 3, 8, 600, 7, 7, Weather(5, 7, 4, 3), 4),
       Material(6, "Wood", {"Structural", "Flooring", "Wall"},
                70, 40, 15, 50, 7, 6, 750, 9, 5, Weather(6, 7, 6, 5), 3),
       Material(7, "Brick", {"Wall", "Facade"},
                15, 100, 60, 600, 7, 7, 400, 9, 2, Weather(9, 8, 7, 9), 6),
       Material(8, "Glass", {"Windows", "Doors", "Facade"},
                100, 30, 100, 25, 10, 6, 70, 8, 4, Weather(7, 7, 10, 7), 7),
       Material(9, "Glass", {"Windows", "Facade"},
                90, 35, 50, 25, 10, 8, 120, 7, 3, Weather(9, 9, 10, 9), 8),
       Material(10, "Aluminum", {"Structural", "Facade", "Windows", "Doors"},
                310, 40, 16700, 10, 8, 8, 3000, 8, 3, Weather(7, 9, 8, 9), 5),
       Material(11, "Stone", {"Flooring", "Facade", "Interior Finishing"},
                170, 100, 280, 600, 8, 6, 200, 6, 3, Weather(9, 9, 8, 9), 7),
       Material(12, "Ceramic", {"Flooring", "Wall", "Interior Finishing"},
                35, 50, 150, 500, 9, 6, 30, 9, 2, Weather(9, 8, 9, 9), 5),
       Material(13, "Plastic", {"Doors", "Windows", "Interior Finishing"},
                55, 35, 19, 20, 10, 3, 25, 10, 2, Weather(5, 8, 10, 4), 3),
       Material(14, "Composite", {"Wall", "Facade", "Roofing"},
                20, 50, 25, 200, 9, 7, 18, 8, 2, Weather(8, 8, 9, 8), 4),
       Material(15, "Composite", {"Flooring"},
                25, 30, 22, 100, 9, 8, 65, 7, 2, Weather(7, 8, 9, 7), 4) >>

get_weather_properties == <<"heat", "cold", "humidity", "uv">>

-----------------------------------------------------------------------------
(* Project specifications: a dict.  keys is the set of keys present; a     *)
(* field whose key is absent is never read.  A list-or-scalar value is     *)
(* [islist |-> TRUE, items |-> <<...>>] or [islist |-> FALSE, value |-> v] *)

ListOf(s) == [islist |-> TRUE, items |-> s]

Scalar(v) == [islist |-> FALSE, value |-> v]

AllKeys ==
    {"applications", "material_types", "min_strength_mpa",
     "min_durability_years", "fire_resistance_requirement",
     "water_resistance_requirement", "thermal_requirement",
     "eco_friendly_requirement", "budget_constraint",
     "installation_time_constraint", "environmental_conditions"}

\* project_specs.get(key, default)
Get(specs, key, default) ==
    IF key \in specs.keys THEN specs[key] ELSE default

\* if not isinstance(v, list): v = [v]
AsList(v) == IF v.islist THEN v.items ELSE <<v.value>>

\* truth value of a list-or-scalar value
Truthy(v) == IF v.islist THEN v.items # <<>> ELSE v.value # ""

-----------------------------------------------------------------------------
(* data_utils.py: calculate_material_scores *)

\* The weights dict.  It has twelve entries; "availability" and
\* "maintenance" are used by no criterion, and there is no entry for the type
\* preference, which is weighted with weights["strength"].
weights ==
    [application_match |-> 5, strength |-> 3, durability |-> 3,
     fire_resistance |-> 2, water_resistance |-> 2, thermal |-> 2,
     eco_friendly |-> 2, cost |-> 4, availability |-> 3, maintenance |-> 2,
     weather |-> 3, installation |-> 2]

\* Variant: only the weights some criterion uses are summed.
total_weight_used ==
    SumSet(weights, DOMAIN weights \ {"availability", "maintenance"})

\* total_weight = sum(w for k, w in weights.items())
total_weight == SumSet(weights, DOMAIN weights)

\* Variant: the ratio is not capped at 10.
RatioScore_uncapped(value, req) == (10 * SCALE * value) \div req

\* np.where(value >= req, 10, 10 * (value / req))
RatioScore(value, req) ==
    IF value >= req THEN 10 * SCALE ELSE (10 * SCALE * value) \div req

\* Variant: the matches are taken as a share of the material's applications.
application_score_ofMaterial(m, specs) ==
    LET requested == AsList(Get(specs, "applications", ListOf(<<>>)))
        hits == Cardinality({i \in DOMAIN requested :
                                requested[i] \in m.applications})
    IN  (hits * 10 * SCALE) \div Max2(1, Cardinality(m.applications))

\* sum(1 for app in requested if app in x) / max(1, len(requested)) * 10
application_score(m, specs) ==
    LET requested == AsList(Get(specs, "applications", ListOf(<<>>)))
        hits == Cardinality({i \in DOMAIN requested :
                                requested[i] \in m.applications})
    IN  (hits * 10 * SCALE) \div Max2(1, Len(requested))

type_active(specs) == Truthy(Get(specs, "material_types", ListOf(<<>>)))

\* Variant: a type that is not preferred scores nothing.
type_score_zeroElse(m, specs) ==
    LET preferred == AsList(Get(specs, "material_types", ListOf(<<>>)))
    IN  IF m.type \in Range(preferred) THEN 10 * SCALE ELSE 0

type_score(m, specs) ==
    LET preferred == AsList(Get(specs, "material_types", ListOf(<<>>)))
    IN  IF m.type \in Range(preferred) THEN 10 * SCALE ELSE 5 * SCALE

\* Variant: the strength criterion is scored whenever its key is present.
strength_active_ifPresent(specs) == "min_strength_mpa" \in specs.keys

\* if min_strength > 0
strength_active(specs) == Get(specs, "min_strength_mpa", 0) > 0

strength_score(m, specs) ==
    RatioScore(m.strength_mpa, Get(specs, "min_strength_mpa", 0))

durability_active(specs) == Get(specs, "min_durability_years", 0) > 0

durability_score(m, specs) ==
    RatioScore(m.durability_years, Get(specs, "min_durability_years", 0))

fire_active(specs) == Get(specs, "fire_resistance_requirement", 0) > 0

fire_score(m, specs) ==
    RatioScore(m.fire_resistance_hours,
               Get(specs, "fire_resistance_requirement", 0))

water_active(specs) == Get(specs, "water_resistance_requirement", 0) > 0

water_score(m, specs) ==
    RatioScore(m.water_resistance,
               Get(specs, "water_resistance_requirement", 0))

\* Variant: the thermal criterion is scored whether or not it was asked for.
thermal_active_always(specs) == TRUE

\* if thermal_req is not None
thermal_active(specs) == Get(specs, "thermal_requirement", None) # None

\* Variant: the result is not clipped.
thermal_score_unclipped(m, specs) ==
    IF Get(specs, "thermal_requirement", None) = "low"
    THEN 10 * SCALE - (m.thermal_conductivity * SCALE) \div 1000
    ELSE (m.thermal_conductivity * SCALE) \div 1000

\* thermal_conductivity / 10 in units of 1/SCALE is the conductivity in 1/100
thermal_score(m, specs) ==
    LET raw == IF Get(specs, "thermal_requirement", None) = "low"
               THEN 10 * SCALE - (m.thermal_conductivity * SCALE) \div 1000
               ELSE (m.thermal_conductivity * SCALE) \div 1000
    IN  Clip(raw, 0, 10 * SCALE)

eco_active(specs) == Get(specs, "eco_friendly_requirement", 0) > 0

eco_score(m, specs) ==
    RatioScore(m.eco_friendly_score,
               Get(specs, "eco_friendly_requirement", 0))

\* Variant: a budget of 0 counts as no budget.
cost_active_truthy(specs) ==
    Get(specs, "budget_constraint", NoBudget) \notin {NoBudget, 0}

\* if budget is not None
cost_active(specs) == Get(specs, "budget_constraint", NoBudget) # NoBudget

\* Variant: the ratio is taken whether or not the cost is within the budget.
cost_score_uncapped(m, specs) ==
    (10 * SCALE * Get(specs, "budget_constraint", NoBudget))
        \div m.cost_per_unit

\* Variant: the comparison with the budget is the wrong way round.
cost_score_reversed(m, specs) ==
    LET budget == Get(specs, "budget_constraint", NoBudget)
    IN  IF m.cost_per_unit >= budget THEN 10 * SCALE
        ELSE (10 * SCALE * budget) \div m.cost_per_unit

\* np.where(cost <= budget, 10, 10 * (budget / cost))
cost_score(m, specs) ==
    LET budget == Get(specs, "budget_constraint", NoBudget)
    IN  IF m.cost_per_unit <= budget THEN 10 * SCALE
        ELSE (10 * SCALE * budget) \div m.cost_per_unit

EmptyDict == [c \in {} |-> 0]

\* the conditions the weather loop adds up
WeatherConditions(specs) ==
    LET env == Get(specs, "environmental_conditions", EmptyDict)
    IN  {c \in DOMAIN env : env[c] > 0 /\ c \in Range(get_weather_properties)}

\* if env_conditions: ... if count > 0:
weather_active(specs) ==
    LET env == Get(specs, "environmental_conditions", EmptyDict)
    IN  /\ DOMAIN env # {}
        /\ SumSet(env, WeatherConditions(specs)) > 0

\* x.get(condition, 5)
WeatherGet(m, c) ==
    IF c \in DOMAIN m.weather_resistance THEN m.weather_resistance[c] ELSE 5

\* Variant: the plain mean of the components, importances ignored.
weather_score_unweighted(m, specs) ==
    LET conds == WeatherConditions(specs)
        num == SumSet([c \in conds |-> WeatherGet(m, c)], conds)
    IN  (SCALE * num) \div Cardinality(conds)

\* weather_score / count, both sums carrying the same factor 1/10
weather_score(m, specs) ==
    LET env == Get(specs, "environmental_conditions", EmptyDict)
        conds == WeatherConditions(specs)
        num == SumSet([c \in conds |-> WeatherGet(m, c) * env[c]], conds)
        count == SumSet(env, conds)
    IN  (SCALE * num) \div count

install_active(specs) ==
    Get(specs, "installation_time_constraint", None) # None

\* Variant: the two settings are exchanged.
install_score_swapped(m, specs) ==
    IF Get(specs, "installation_time_constraint", None) = "low"
    THEN m.installation_complexity * SCALE
    ELSE (10 - m.installation_complexity) * SCALE

install_score(m, specs) ==
    IF Get(specs, "installation_time_constraint", None) = "low"
    THEN (10 - m.installation_complexity) * SCALE
    ELSE m.installation_complexity * SCALE

\* The score columns the call adds for this specification, in source order,
\* each with the weight it is added with.
Criteria(specs) ==
    << [col |-> "application_score", active |-> TRUE,
        w |-> weights["application_match"]],
       [col |-> "type_score", active |-> type_active(specs),
        w |-> weights["strength"]],
       [col |-> "strength_score", active |-> strength_active(specs),
        w |-> weights["strength"]],
       [col |-> "durability_score", active |-> durability_active(specs),
        w |-> weights["durability"]],
       [col |-> "fire_score", active |-> fire_active(specs),
        w |-> weights["fire_resistance"]],
       [col |-> "water_score", active |-> water_active(specs),
        w |-> weights["water_resistance"]],
       [col |-> "thermal_score", active |-> thermal_active(specs),
        w |-> weights["thermal"]],
       [col |-> "eco_score", active |-> eco_active(specs),
        w |-> weights["eco_friendly"]],
       [col |-> "cost_score", active |-> cost_active(specs),
        w |-> weights["cost"]],
       [col |-> "weather_score", active |-> weather_active(specs),
        w |-> weights["weather"]],
       [col |-> "install_score", active |-> install_active(specs),
        w |-> weights["installation"]] >>

ActiveColumnsOf(crit) ==
    {crit[i].col : i \in {j \in DOMAIN crit : crit[j].active}}

ActiveColumns(specs) == ActiveColumnsOf(Criteria(specs))

SubScore(col, m, specs) ==
    CASE col = "application_score" -> application_score(m, specs)
      [] col = "type_score" -> type_score(m, specs)
      [] col = "strength_score" -> strength_score(m, specs)
      [] col = "durability_score" -> durability_score(m, specs)
      [] col = "fire_score" -> fire_score(m, specs)
      [] col = "water_score" -> water_score(m, specs)
      [] col = "thermal_score" -> thermal_score(m, specs)
      [] col = "eco_score" -> eco_score(m, specs)
      [] col = "cost_score" -> cost_score(m, specs)
      [] col = "weather_score" -> weather_score(m, specs)
      [] col = "install_score" -> install_score(m, specs)

\* total_score before normalisation: the += lines
WeightedSumOf(crit, m, specs) ==
    SumSeq([i \in DOMAIN crit |->
              IF crit[i].active
              THEN SubScore(crit[i].col, m, specs) * crit[i].w
              ELSE 0])

WeightedSum(m, specs) == WeightedSumOf(Criteria(specs), m, specs)

\* Variant: the normalised score is capped at 10.
Normalize_clamped(sum) == Min2(10 * SCALE, (sum * 10) \div total_weight)

\* total_score / total_weight * 10
Normalize(sum) == (sum * 10) \div total_weight

\* One row of the scored copy: the material's columns, the score columns the
\* specification made active, and total_score.
ScoredRow(m, specs) ==
    [material |-> m,
     scores |-> [c \in ActiveColumns(specs) |-> SubScore(c, m, specs)],
     total_score |-> Normalize(WeightedSum(m, specs))]

\* sort_values(by="total_score", ascending=False), default kind quicksort.
\* The sort is not stable: how rows of equal total_score are ordered depends
\* on the numpy build.  ties names the order this build produces: "stable"
\* keeps equal rows in input order, "reversed" puts them in reverse order.
SortedBefore_ascending(rows, i, j, ties) ==
    \/ rows[i].total_score < rows[j].total_score
    \/ /\ rows[i].total_score = rows[j].total_score
       /\ IF ties = "stable" THEN i < j ELSE i > j

SortedBefore(rows, i, j, ties) ==
    \/ rows[i].total_score > rows[j].total_score
    \/ /\ rows[i].total_score = rows[j].total_score
       /\ IF ties = "stable" THEN i < j ELSE i > j

\* the rows taken in the order of their ranks
TakeByRank(rows, rank) ==
    [k \in DOMAIN rows |-> rows[CHOOSE i \in DOMAIN rows : rank[i] = k]]

sort_values(rows, ties) ==
    TakeByRank(rows,
               [i \in DOMAIN rows |->
                  1 + Cardinality({j \in DOMAIN rows :
                                      SortedBefore(rows, j, i, ties)})])

calculate_material_scores(df, specs, ties) ==
    sort_values([i \in DOMAIN df |-> ScoredRow(df[i], specs)], ties)

\* the material columns of scored rows, in the rows' order
MaterialsOf(rows) == [i \in DOMAIN rows |-> rows[i].material]

\* Variant: the frame that was passed in is sorted in place.
CatalogAfterScoring_sortedInPlace(df, specs) ==
    MaterialsOf(calculate_material_scores(df, specs, "stable"))

\* Variant: the score is written into the frame that was passed in.
CatalogAfterScoring_inPlace(df, specs) ==
    [i \in DOMAIN df |->
        [total_score |-> Normalize(WeightedSum(df[i], specs))] @@ df[i]]

\* scored_materials = materials_df.copy(): every column the call adds is
\* written to the copy, and sort_values returns a new frame.  This is the
\* caller's frame after the call.
CatalogAfterScoring(df, specs) == df

-----------------------------------------------------------------------------
(* data_utils.py: preprocess_material_data, and the StandardScaler *)

get_material_properties ==
    <<"strength_mpa", "durability_years", "thermal_conductivity",
      "fire_resistance_hours", "water_resistance", "eco_friendly_score",
      "cost_per_unit", "availability", "maintenance_requirement",
      "installation_complexity">>

\* Standardized values are held in units of 1/ZSCALE.
ZSCALE == 100

RECURSIVE SetToSeq(_)
SetToSeq(S) ==
    IF S = {} THEN <<>>
    ELSE LET x == CHOOSE y \in S : TRUE IN <<x>> \o SetToSeq(S \ {x})

\* The feature columns: the ten properties, weather_<prop> for the four
\* weather properties, one dummy per type and per application in the catalog.
FeatureColumns(df) ==
    [i \in DOMAIN get_material_properties |->
        [kind |-> "prop", name |-> get_material_properties[i]]]
    \o [i \in DOMAIN get_weather_properties |->
        [kind |-> "weather", name |-> get_weather_properties[i]]]
    \o SetToSeq({[kind |-> "type", name |-> df[i].type] : i \in DOMAIN df})
    \o SetToSeq({[kind |-> "app", name |-> a] :
                    a \in UNION {df[i].applications : i \in DOMAIN df}})

\* One cell of the feature matrix.  Standardization does not depend on the
\* unit of a column, so each column is taken in a unit that keeps the integer
\* square root of the scaler accurate: thermal_conductivity in 1/10,
\* fire_resistance_hours in 1/100, the 0..10 ratings in 1/10 and the dummies
\* in 1/100.
Feature(m, col) ==
    CASE col.kind = "prop" ->
            IF col.name = "thermal_conductivity"
            THEN m.thermal_conductivity \div 10
            ELSE IF col.name \in {"strength_mpa", "durability_years",
                                  "fire_resistance_hours", "cost_per_unit"}
            THEN m[col.name]
            ELSE 10 * m[col.name]
      [] col.kind = "weather" ->
            IF col.name \in DOMAIN m.weather_resistance
            THEN 10 * m.weather_resistance[col.name] ELSE 0
      [] col.kind = "type" -> IF m.type = col.name THEN 100 ELSE 0
      [] col.kind = "app" -> IF col.name \in m.applications THEN 100 ELSE 0

FeatureMatrix(df, cols) ==
    [i \in DOMAIN df |-> [c \in DOMAIN cols |-> Feature(df[i], cols[c])]]

preprocess_material_data(df) == FeatureMatrix(df, FeatureColumns(df))

RECURSIVE SumTo(_, _)
SumTo(f, k) == IF k = 0 THEN 0 ELSE f[k] + SumTo(f, k - 1)

RECURSIVE ISqrtBetween(_, _, _)
ISqrtBetween(v, lo, hi) ==
    IF lo >= hi THEN lo
    ELSE LET mid == (lo + hi + 1) \div 2
         IN  IF mid * mid <= v THEN ISqrtBetween(v, mid, hi)
             ELSE ISqrtBetween(v, lo, mid - 1)

\* largest r with r * r <= v
ISqrt(v) == ISqrtBetween(v, 0, Min2(v, 46340))

\* StandardScaler().fit_transform(X): (x - mean) / std per column, with the
\* population standard deviation and std = 1 for a constant column.  With
\* n rows, S the column sum and Q = n * sum(x^2) - S^2:
\* (x - mean) / std = (n * x - S) / sqrt(Q).
ColumnsOf(X) == IF Len(X) = 0 THEN {} ELSE DOMAIN X[1]

ColumnSums(X) ==
    [c \in ColumnsOf(X) |-> SumTo([i \in DOMAIN X |-> X[i][c]], Len(X))]

ColumnSquares(X) ==
    [c \in ColumnsOf(X) |->
        SumTo([i \in DOMAIN X |-> X[i][c] * X[i][c]], Len(X))]

Standardize(X, n, S, R) ==
    [i \in DOMAIN X |->
        [c \in DOMAIN S |->
            IF R[c] = 0 THEN 0
            ELSE ((n * X[i][c] - S[c]) * ZSCALE) \div R[c]]]

ScaleOf(n, S, SS) == [c \in DOMAIN S |-> ISqrt(n * SS[c] - S[c] * S[c])]

FitTransform(X, S, SS) == Standardize(X, Len(X), S, ScaleOf(Len(X), S, SS))

fit_transform(X) == FitTransform(X, ColumnSums(X), ColumnSquares(X))

-----------------------------------------------------------------------------
(* model.py: MaterialRecommender *)

NoModel == [kind |-> None, fitted |-> FALSE, samples |-> 0]

RandomForestRegressor(fitted, samples) ==
    [kind |-> "RandomForestRegressor", fitted |-> fitted, samples |-> samples]

\* squared Euclidean distance of two standardized rows
Dist2(a, b) ==
    SumTo([c \in DOMAIN a |-> (a[c] - b[c]) * (a[c] - b[c])], Len(a))

\* knn_model.kneighbors(query, n_neighbors): the positions of the n_neighbors
\* rows nearest to the query, nearest first.  Rows at equal distance come in
\* the order this build's sort gives them.
NearerThan(d, i, j, ties) ==
    \/ d[i] < d[j]
    \/ d[i] = d[j] /\ IF ties = "stable" THEN i < j ELSE i > j

FirstByRank(rank, n_neighbors) ==
    [k \in 1..n_neighbors |-> CHOOSE i \in DOMAIN rank : rank[i] = k]

NearestFirst(d, n_neighbors, ties) ==
    FirstByRank([i \in DOMAIN d |->
                   1 + Cardinality({j \in DOMAIN d : NearerThan(d, j, i, ties)})],
                n_neighbors)

kneighbors(X, query, n_neighbors, ties) ==
    NearestFirst([i \in DOMAIN X |-> Dist2(X[i], query)], n_neighbors, ties)

\* Variant: an id that is not found falls back to the first row.
RowsWithId_orFirst(df, material_id) ==
    IF {i \in DOMAIN df : df[i].id = material_id} = {} /\ Len(df) > 0
    THEN {1}
    ELSE {i \in DOMAIN df : df[i].id = material_id}

\* the positions of the rows with df["id"] == material_id
RowsWithId(df, material_id) == {i \in DOMAIN df : df[i].id = material_id}

\* materials_df.iloc[indices]["id"].tolist()
IdsAt(df, indices) == [k \in DOMAIN indices |-> df[indices[k]].id]

\* Variant: the last neighbour is dropped instead of the first.
DropFirst_dropsLast(s) == [k \in 1..(Len(s) - 1) |-> s[k]]

\* indices[0][1:]
DropFirst(s) == [k \in 1..(Len(s) - 1) |-> s[k + 1]]

\* Variant: at least one neighbour is always asked for.
QuerySize_atLeastOne(n_neighbors) == Max2(1, n_neighbors + 1)

\* n_neighbors=n_neighbors + 1
QuerySize(n_neighbors) == n_neighbors + 1

get_similar_materials(df, X, material_id, n_neighbors, ties) ==
    IF RowsWithId(df, material_id) = {}
    THEN [result |-> "IndexError", ids |-> <<>>, calls |-> <<>>]
    ELSE LET material_idx ==
                 CHOOSE i \in RowsWithId(df, material_id) :
                     \A j \in RowsWithId(df, material_id) : i <= j
         IN  IF QuerySize(n_neighbors) <= 0 \/ QuerySize(n_neighbors) > Len(X)
             THEN [result |-> "ValueError", ids |-> <<>>,
                   calls |-> <<"kneighbors">>]
             ELSE LET indices ==
                          kneighbors(X, X[material_idx],
                                     QuerySize(n_neighbors), ties)
                      similar_indices == DropFirst(indices)
                  IN  [result |-> "ok",
                       ids |-> IdsAt(df, similar_indices),
                       calls |-> <<"kneighbors">>]

\* Variant: the default is ten recommendations.
n_recommendations_ten == 5 + 5

\* def recommend_materials(self, project_specs, n_recommendations=5)
n_recommendations == 5

\* Variant: one row too many is taken.
head_oneMore(rows, n) ==
    IF n >= 0 THEN SubSeq(rows, 1, Min2(n + 1, Len(rows)))
    ELSE SubSeq(rows, 1, Max2(0, Len(rows) + n))

\* DataFrame.head(n): the first n rows, or for negative n all but the last -n
head(rows, n) ==
    IF n >= 0 THEN SubSeq(rows, 1, Min2(n, Len(rows)))
    ELSE SubSeq(rows, 1, Max2(0, Len(rows) + n))

\* Variant: once a model is trained the ranking no longer comes from the
\* scoring engine (the rows come back in catalog order).
recommend_materials_usesModel(df, model, is_trained, specs, n, ties) ==
    IF is_trained
    THEN head([i \in DOMAIN df |-> ScoredRow(df[i], specs)], n)
    ELSE head(calculate_material_scores(df, specs, ties), n)

recommend_materials(df, model, is_trained, specs, n, ties) ==
    head(calculate_material_scores(df, specs, ties), n)

\* data_utils.py: extract_project_features.  The names of the features dict:
\* the numerical features whose key the specification has, and env_<condition>
\* for every entry of a non-empty environmental_conditions.
numerical_features ==
    {"min_strength_mpa", "min_durability_years", "fire_resistance_requirement",
     "water_resistance_requirement", "thermal_requirement",
     "eco_friendly_requirement", "budget_constraint",
     "installation_time_constraint"}

FeatureNames(specs) ==
    {[prefix |-> "", name |-> f] : f \in numerical_features \cap specs.keys}
    \cup {[prefix |-> "env_", name |-> c] :
             c \in DOMAIN Get(specs, "environmental_conditions", EmptyDict)}

\* pd.DataFrame([features]): a frame of exactly one row
extract_project_features(specs) ==
    << [f \in FeatureNames(specs) |->
           IF f.prefix = "" THEN specs[f.name]
           ELSE specs["environmental_conditions"][f.name]] >>

\* rf_model.predict(X): one predicted rating per row of X
predict(X, rating) == [i \in DOMAIN X |-> rating]

\* sort_values(by="predicted_rating", ascending=False)
RatedBefore(rows, i, j, ties) ==
    \/ rows[i].predicted_rating > rows[j].predicted_rating
    \/ /\ rows[i].predicted_rating = rows[j].predicted_rating
       /\ IF ties = "stable" THEN i < j ELSE i > j

sort_by_rating(rows, ties) ==
    TakeByRank(rows,
               [i \in DOMAIN rows |->
                  1 + Cardinality({j \in DOMAIN rows :
                                      RatedBefore(rows, j, i, ties)})])

\* rated_materials["predicted_rating"] = predicted_ratings: assigning an
\* array to a column needs one value per row of the frame and raises
\* ValueError otherwise.
SetPredictedRating(df, values, ties) ==
    IF Len(values) # Len(df)
    THEN [result |-> "ValueError", rows |-> <<>>,
          calls |-> <<"predict", "setitem">>]
    ELSE [result |-> "ok",
          rows |-> sort_by_rating([i \in DOMAIN df |->
                                      [material |-> df[i],
                                       predicted_rating |-> values[i]]], ties),
          calls |-> <<"predict", "setitem", "sort_values">>]

\* accepted tells whether the fitted forest takes the extracted features
\* (the columns it was fitted on, all of them numbers); rating is the value
\* it predicts for them.
predict_material_ratings(df, model, is_trained, specs, accepted, rating, ties) ==
    IF ~is_trained \/ model.kind = None
    THEN [result |-> "None", rows |-> <<>>, calls |-> <<>>]
    ELSE IF ~model.fitted
    THEN [result |-> "NotFittedError", rows |-> <<>>, calls |-> <<"predict">>]
    ELSE IF ~accepted
    THEN [result |-> "ValueError", rows |-> <<>>, calls |-> <<"predict">>]
    ELSE SetPredictedRating(df, predict(extract_project_features(specs), rating),
                            ties)

-----------------------------------------------------------------------------
(* The inputs the model draws *)

CriterionNames ==
    {"type", "strength", "durability", "fire", "water", "thermal", "eco",
     "cost", "weather", "installation"}

\* Which criteria a drawn specification makes active: none, all, one, or all
\* but one.
ActivePatterns ==
    {{}, CriterionNames}
    \cup {{c} : c \in CriterionNames}
    \cup {CriterionNames \ {c} : c \in CriterionNames}

ApplicationInputs ==
    {ListOf(<<>>), ListOf(<<"Foundation">>), Scalar("Flooring"),
     ListOf(<<"Structural", "Facade">>),
     ListOf(<<"Foundation", "Foundation", "Facade">>)}

NoEnvironment == [c \in Range(get_weather_properties) |-> 0]

\* A specification as the forms build it.  Criteria in act get the values of
\* the given level, the others their "not set" value.  With full = FALSE the
\* keys of the criteria that are not active are left out of the dict.
MkSpecs(apps, act, level, full) ==
    [keys |-> IF full THEN AllKeys
              ELSE {"applications"}
                   \cup (IF "type" \in act THEN {"material_types"} ELSE {})
                   \cup (IF "strength" \in act THEN {"min_strength_mpa"} ELSE {})
                   \cup (IF "durability" \in act THEN {"min_durability_years"} ELSE {})
                   \cup (IF "fire" \in act THEN {"fire_resistance_requirement"} ELSE {})
                   \cup (IF "water" \in act THEN {"water_resistance_requirement"} ELSE {})
                   \cup (IF "thermal" \in act THEN {"thermal_requirement"} ELSE {})
                   \cup (IF "eco" \in act THEN {"eco_friendly_requirement"} ELSE {})
                   \cup (IF "cost" \in act THEN {"budget_constraint"} ELSE {})
                   \cup (IF "installation" \in act THEN {"installation_time_constraint"} ELSE {})
                   \cup (IF "weather" \in act THEN {"environmental_conditions"} ELSE {}),
     applications |-> apps,
     material_types |->
        IF "type" \notin act THEN ListOf(<<>>)
        ELSE IF level = 1 THEN ListOf(<<"Concrete", "Glass">>)
        ELSE Scalar("Steel"),
     min_strength_mpa |->
        IF "strength" \notin act THEN 0 ELSE IF level = 1 THEN 50 ELSE 500,
     min_durability_years |->
        IF "durability" \notin act THEN 0 ELSE IF level = 1 THEN 60 ELSE 10,
     fire_resistance_requirement |->
        IF "fire" \notin act THEN 0 ELSE IF level = 1 THEN 300 ELSE 50,
     water_resistance_requirement |->
        IF "water" \notin act THEN 0 ELSE IF level = 1 THEN 9 ELSE 1,
     thermal_requirement |->
        IF "thermal" \notin act THEN None ELSE IF level = 1 THEN "low" ELSE "high",
     eco_friendly_requirement |->
        IF "eco" \notin act THEN 0 ELSE IF level = 1 THEN 7 ELSE 10,
     budget_constraint |->
        IF "cost" \notin act THEN NoBudget ELSE IF level = 1 THEN 150 ELSE 0,
     installation_time_constraint |->
        IF "installation" \notin act THEN None ELSE IF level = 1 THEN "low" ELSE "high",
     environmental_conditions |->
        IF "weather" \notin act THEN NoEnvironment
        ELSE IF level = 1 THEN [heat |-> 5, cold |-> 0, humidity |-> 10, uv |-> 0]
        ELSE [cold |-> 3, uv |-> 3, wind |-> 7]]

ScoreSpecs ==
    {MkSpecs(apps, act, level, full) :
        apps \in ApplicationInputs, act \in ActivePatterns,
        level \in {1, 2}, full \in BOOLEAN}

\* The materials small catalogs are made of: rows of the built-in catalog and
\* two rows at the ends of the value ranges.
MaterialPool ==
    {generate_material_database[i] : i \in {1, 2, 10}}
    \cup {Material(20, "Stone", {"Foundation", "Flooring"},
                   0, 0, 0, 0, 0, 0, 1, 0, 0, Weather(0, 0, 0, 0), 0),
          Material(21, "Steel", {"Structural", "Facade", "Foundation"},
                   500, 100, 100000, 600, 10, 10, 150, 10, 10,
                   Weather(10, 10, 10, 10), 10)}

RECURSIVE SeqsUpTo(_, _)
SeqsUpTo(S, n) ==
    IF n = 0 THEN {<<>>}
    ELSE LET shorter == SeqsUpTo(S, n - 1)
         IN  shorter \cup {Append(s, x) : s \in shorter, x \in S}

CatalogInputs == SeqsUpTo(MaterialPool, MaxCatalog)

SortTieOrders == {"stable", "reversed"}

-----------------------------------------------------------------------------
(* The outcome of a call *)

\* st.session_state.project_specs before the first form is submitted
DefaultSpecs ==
    [keys |-> {"applications", "material_types", "min_strength_mpa",
               "min_durability_years"}]
        @@ MkSpecs(ListOf(<<>>), {}, 1, FALSE)

NoArgs ==
    [project_specs |-> DefaultSpecs, material_id |-> 0, n |-> 0,
     n_specs |-> 0, n_ratings |-> 0, accepted |-> FALSE, n_given |-> TRUE,
     user_id |-> 0, project_id |-> 0, project_name |-> "", method |-> ""]

Outcome(op, args, result, rows, ids, calls) ==
    [op |-> op, args |-> args, result |-> result, rows |-> rows, ids |-> ids,
     calls |-> calls]

NoCall == Outcome("none", NoArgs, "none", <<>>, <<>>, <<>>)

\* The register_user calls that can be in progress at the same time.
MaxCallers == 2

Callers == 1..MaxCallers

\* The tables and session stores before the first request.
InitStores ==
    /\ user_projects = <<>>
    /\ next_project_id = 1
    /\ users = <<>>
    /\ procs = [p \in Callers |->
                  [pc |-> "idle", username |-> "", email |-> "",
                   result |-> "none", caught |-> "none"]]
    /\ projects = <<>>
    /\ recommendations = <<>>
    /\ selected_materials = <<>>
    /\ session = [key \in {} |-> <<>>]

-----------------------------------------------------------------------------
(* The scoring engine on its own: any catalog, any specification *)

InitScore ==
    /\ materials_df \in CatalogInputs
    /\ sort_ties \in SortTieOrders
    /\ scaled_features = <<>>
    /\ rf_model = NoModel
    /\ trained = FALSE
    /\ last = NoCall
    /\ InitStores

\* The caller is between two calls.
Idle == last = NoCall

CalculateMaterialScores(specs) ==
    /\ Idle
    /\ last' = Outcome("calculate_material_scores",
                       [NoArgs EXCEPT !.project_specs = specs], "ok",
                       calculate_material_scores(materials_df, specs, sort_ties),
                       <<>>, <<>>)
    /\ materials_df' = CatalogAfterScoring(materials_df, specs)
    /\ UNCHANGED <<scaled_features, rf_model, trained, sort_ties>>
    /\ UNCHANGED <<db_vars, web_vars>>

\* The caller takes the returned value (or the exception) and goes on.
Return ==
    /\ ~Idle
    /\ last' = NoCall
    /\ UNCHANGED <<materials_df, scaled_features, rf_model, trained, sort_ties>>
    /\ UNCHANGED <<db_vars, web_vars>>

NextScore ==
    \/ \E specs \in ScoreSpecs : CalculateMaterialScores(specs)
    \/ Return

SpecScore == InitScore /\ [][NextScore]_vars

-----------------------------------------------------------------------------
(* The recommender: construction and calls *)

\* The specifications the recommender is called with.
RecommendSpecs ==
    {DefaultSpecs, MkSpecs(ListOf(<<"Foundation">>), {"strength", "cost"}, 1, FALSE)}
    \cup {MkSpecs(apps, act, level, TRUE) :
            apps \in ApplicationInputs, act \in {{}, {"type"}, CriterionNames},
            level \in {1, 2}}

NInputs == (-1)..MaxN

MaterialIdInputs == 0..(Len(generate_material_database) + 1)

NeighborInputs == (-2)..Len(generate_material_database)

\* Variant: four samples are enough.
MinHistory_four == 5 - 1

\* if len(project_specs_list) < 5 or len(ratings_list) < 5
MinHistory == 5

HistorySizes == {0, MinHistory - 1, MinHistory, MaxHistory}

\* MaterialRecommender.__init__
Init ==
    /\ materials_df = generate_material_database
    /\ scaled_features =
           fit_transform(preprocess_material_data(generate_material_database))
    /\ rf_model = NoModel
    /\ trained = FALSE
    /\ sort_ties \in SortTieOrders
    /\ last = NoCall
    /\ InitStores

RecommendMaterials(specs, n) ==
    /\ Idle
    /\ last' = Outcome("recommend_materials",
                       [NoArgs EXCEPT !.project_specs = specs, !.n = n], "ok",
                       recommend_materials(materials_df, rf_model, trained,
                                           specs, n, sort_ties),
                       <<>>, <<"calculate_material_scores">>)
    /\ materials_df' = CatalogAfterScoring(materials_df, specs)
    /\ UNCHANGED <<scaled_features, rf_model, trained, sort_ties>>
    /\ UNCHANGED <<db_vars, web_vars>>

\* recommend_materials(project_specs): n_recommendations is not passed
RecommendMaterialsDefault(specs) ==
    /\ Idle
    /\ last' = Outcome("recommend_materials",
                       [NoArgs EXCEPT !.project_specs = specs,
                                      !.n = n_recommendations,
                                      !.n_given = FALSE], "ok",
                       recommend_materials(materials_df, rf_model, trained,
                                           specs, n_recommendations, sort_ties),
                       <<>>, <<"calculate_material_scores">>)
    /\ materials_df' = CatalogAfterScoring(materials_df, specs)
    /\ UNCHANGED <<scaled_features, rf_model, trained, sort_ties>>
    /\ UNCHANGED <<db_vars, web_vars>>

GetSimilarMaterials(material_id, n_neighbors) ==
    LET r == get_similar_materials(materials_df, scaled_features, material_id,
                                   n_neighbors, sort_ties)
    IN  /\ Idle
        /\ last' = Outcome("get_similar_materials",
                           [NoArgs EXCEPT !.material_id = material_id,
                                          !.n = n_neighbors],
                           r.result, <<>>, r.ids, r.calls)
        /\ UNCHANGED <<materials_df, scaled_features, rf_model, trained,
                       sort_ties>>
        /\ UNCHANGED <<db_vars, web_vars>>

\* train_regression_model with n_specs specifications and n_ratings ratings;
\* numeric tells whether every extracted feature is a number.  The regressor
\* is replaced before fit, and fit raises ValueError on non-numeric features
\* or when X and y differ in length.
TrainRegressionModel(n_specs, n_ratings, numeric) ==
    LET args == [NoArgs EXCEPT !.n_specs = n_specs, !.n_ratings = n_ratings]
    IN  /\ Idle
        /\ IF n_specs < MinHistory \/ n_ratings < MinHistory
           THEN /\ last' = Outcome("train_regression_model", args, "False",
                                   <<>>, <<>>, <<>>)
                /\ UNCHANGED <<rf_model, trained>>
           ELSE IF n_specs # n_ratings \/ ~numeric
           THEN /\ last' = Outcome("train_regression_model", args, "ValueError",
                                   <<>>, <<>>, <<"fit">>)
                /\ rf_model' = RandomForestRegressor(FALSE, 0)
                /\ UNCHANGED trained
           ELSE /\ last' = Outcome("train_regression_model", args, "True",
                                   <<>>, <<>>, <<"fit">>)
                /\ rf_model' = RandomForestRegressor(TRUE, n_specs)
                /\ trained' = TRUE
        /\ UNCHANGED <<materials_df, scaled_features, sort_ties>>
        /\ UNCHANGED <<db_vars, web_vars>>

RatingInputs == {1, 5}

PredictMaterialRatings(specs, accepted, rating) ==
    LET r == predict_material_ratings(materials_df, rf_model, trained, specs,
                                      accepted, rating, sort_ties)
    IN  /\ Idle
        /\ last' = Outcome("predict_material_ratings",
                           [NoArgs EXCEPT !.project_specs = specs,
                                          !.accepted = accepted],
                           r.result, r.rows, <<>>, r.calls)
        /\ UNCHANGED <<materials_df, scaled_features, rf_model, trained,
                       sort_ties>>
        /\ UNCHANGED <<db_vars, web_vars>>

Next ==
    \/ \E specs \in RecommendSpecs :
          CalculateMaterialScores(specs)
    \/ \E specs \in RecommendSpecs, n \in NInputs :
          RecommendMaterials(specs, n)
    \/ \E specs \in RecommendSpecs :
          RecommendMaterialsDefault(specs)
    \/ \E specs \in RecommendSpecs, accepted \in BOOLEAN, rating \in RatingInputs :
          PredictMaterialRatings(specs, accepted, rating)
    \/ \E id \in MaterialIdInputs, k \in NeighborInputs :
          GetSimilarMaterials(id, k)
    \/ \E ns \in HistorySizes, nr \in HistorySizes, numeric \in BOOLEAN :
          TrainRegressionModel(ns, nr, numeric)
    \/ Return

Spec == Init /\ [][Next]_vars

-----------------------------------------------------------------------------
(* db_utils.py: the saved projects of the Streamlit application.  The      *)
(* table user_projects is held as a sequence, the row updated last first:  *)
(* the order of updated_at descending.                                     *)

MaxProjects == 2

UserIds == {1, 2}

ProjectNameInputs == {"Tower", "Bridge"}

SavedSpecsInputs ==
    {DefaultSpecs,
     MkSpecs(ListOf(<<"Foundation">>), {"strength", "cost"}, 1, FALSE)}

\* A row of user_projects.
UserProject(id, user_id, project_name, project_specs) ==
    [id |-> id, user_id |-> user_id, project_name |-> project_name,
     project_specs |-> project_specs]

\* The dict the functions return for a row.
project_dict(project) ==
    [id |-> project.id, name |-> project.project_name,
     specs |-> project.project_specs]

\* The value the database gives the primary key of a new row: the next value of
\* a sequence that never goes back (PostgreSQL), or one more than the greatest
\* id in the table (SQLite rowid), which takes the id of a deleted last row
\* again.
NewProjectIds(table, counter) ==
    LET ids == {0} \cup {table[i].id : i \in DOMAIN table}
    IN  {counter, (CHOOSE m \in ids : \A id \in ids : id <= m) + 1}

FindProject_anyOwner(table, project_id, user_id) ==
    {i \in DOMAIN table : table[i].id = project_id}

\* query(UserProject).filter(id == project_id, user_id == user_id).first():
\* the positions of the rows found, at most one since id is the primary key.
FindProject(table, project_id, user_id) ==
    {i \in DOMAIN table :
        table[i].id = project_id /\ table[i].user_id = user_id}

save_user_project(table, id, user_id, project_name, project_specs) ==
    <<UserProject(id, user_id, project_name, project_specs)>> \o table

get_user_projects(table, user_id) ==
    LET found == SelectSeq(table, LAMBDA project : project.user_id = user_id)
    IN  [k \in DOMAIN found |-> project_dict(found[k])]

delete_user_project(table, project_id, user_id) ==
    LET found == FindProject(table, project_id, user_id)
    IN  IF found = {}
        THEN [result |-> "False", table |-> table]
        ELSE [result |-> "True",
              table |-> SelectSeq(table,
                                  LAMBDA project : project.id # project_id)]

get_project_by_id(table, project_id, user_id) ==
    LET found == FindProject(table, project_id, user_id)
    IN  IF found = {}
        THEN [result |-> None, rows |-> <<>>]
        ELSE [result |-> "dict",
              rows |-> <<project_dict(table[CHOOSE i \in found : TRUE])>>]

update_user_project(table, project_id, user_id, project_name, project_specs) ==
    LET found == FindProject(table, project_id, user_id)
    IN  IF found = {}
        THEN [result |-> "False", table |-> table]
        ELSE [result |-> "True",
              table |-> <<UserProject(project_id, user_id, project_name,
                                      project_specs)>>
                        \o SelectSeq(table,
                                     LAMBDA project : project.id # project_id)]

SaveUserProject(user_id, project_name, project_specs) ==
    /\ Idle
    /\ next_project_id <= MaxProjects
    /\ \E id \in NewProjectIds(user_projects, next_project_id) :
        /\ user_projects' = save_user_project(user_projects, id, user_id,
                                              project_name, project_specs)
        /\ last' = Outcome("save_user_project",
                           [NoArgs EXCEPT !.project_id = 0,
                                          !.user_id = user_id,
                                          !.project_name = project_name,
                                          !.project_specs = project_specs],
                           "id", <<>>, <<id>>, <<>>)
    /\ next_project_id' = next_project_id + 1
    /\ UNCHANGED <<recommender_vars, users, procs, web_vars>>

GetUserProjects(user_id) ==
    /\ Idle
    /\ last' = Outcome("get_user_projects",
                       [NoArgs EXCEPT !.project_id = 0,
                                      !.user_id = user_id,
                                      !.project_name = "",
                                      !.project_specs = DefaultSpecs],
                       "list", get_user_projects(user_projects, user_id),
                       <<>>, <<>>)
    /\ UNCHANGED <<recommender_vars, db_vars, web_vars>>

DeleteUserProject(project_id, user_id) ==
    /\ Idle
    /\ \E out \in {delete_user_project(user_projects, project_id, user_id)} :
        /\ user_projects' = out.table
        /\ last' = Outcome("delete_user_project",
                           [NoArgs EXCEPT !.project_id = project_id,
                                          !.user_id = user_id,
                                          !.project_name = "",
                                          !.project_specs = DefaultSpecs],
                           out.result, <<>>, <<>>, <<>>)
    /\ UNCHANGED <<recommender_vars, next_project_id, users, procs, web_vars>>

GetProjectById(project_id, user_id) ==
    /\ Idle
    /\ \E out \in {get_project_by_id(user_projects, project_id, user_id)} :
        last' = Outcome("get_project_by_id",
                        [NoArgs EXCEPT !.project_id = project_id,
                                       !.user_id = user_id,
                                       !.project_name = "",
                                       !.project_specs = DefaultSpecs],
                        out.result, out.rows, <<>>, <<>>)
    /\ UNCHANGED <<recommender_vars, db_vars, web_vars>>

UpdateUserProject(project_id, user_id, project_name, project_specs) ==
    /\ Idle
    /\ \E out \in {update_user_project(user_projects, project_id, user_id,
                                       project_name, project_specs)} :
        /\ user_projects' = out.table
        /\ last' = Outcome("update_user_project",
                           [NoArgs EXCEPT !.project_id = project_id,
                                          !.user_id = user_id,
                                          !.project_name = project_name,
                                          !.project_specs = project_specs],
                           out.result, <<>>, <<>>, <<>>)
    /\ UNCHANGED <<recommender_vars, next_project_id, users, procs, web_vars>>

NextProjects ==
    \/ \E user_id \in UserIds, name \in ProjectNameInputs,
          specs \in SavedSpecsInputs :
          SaveUserProject(user_id, name, specs)
    \/ \E user_id \in UserIds :
          GetUserProjects(user_id)
    \/ \E project_id \in 1..(MaxProjects + 1), user_id \in UserIds :
          DeleteUserProject(project_id, user_id)
    \/ \E project_id \in 1..(MaxProjects + 1), user_id \in UserIds :
          GetProjectById(project_id, user_id)
    \/ \E project_id \in 1..(MaxProjects + 1), user_id \in UserIds,
          name \in ProjectNameInputs, specs \in SavedSpecsInputs :
          UpdateUserProject(project_id, user_id, name, specs)
    \/ Return

SpecProjects == Init /\ [][NextProjects]_vars

-----------------------------------------------------------------------------
(* db_utils.py: register_user, called by several sessions at once.  A call *)
(* is two steps on the database: the SELECT of the existence check, and    *)
(* the INSERT with its COMMIT.  The table users is held in insertion order. *)

UsernameInputs == {"ann", "bob"}

EmailInputs == {"ann@example.org", "bob@example.org"}

\* A row of users.
User(username, email) == [username |-> username, email |-> email]

\* query(User).filter((username == u) | (email == e)).first() is not None
existing_user(table, username, email) ==
    \E i \in DOMAIN table :
        table[i].username = username \/ table[i].email = email

UniqueViolation_usernameOnly(table, username, email) ==
    \E i \in DOMAIN table : table[i].username = username

\* The INSERT breaks one of the two unique constraints of the table
\* (username unique=True, email unique=True): the commit raises
\* IntegrityError.
UniqueViolation(table, username, email) ==
    \E i \in DOMAIN table :
        table[i].username = username \/ table[i].email = email

\* The first statement of register_user: the existence check.  A call that
\* finds a user returns False at once.
RegisterCheck(p, username, email) ==
    /\ procs[p].pc = "idle"
    /\ procs' = [procs EXCEPT ![p] =
                  IF existing_user(users, username, email)
                  THEN [pc |-> "done", username |-> username,
                        email |-> email, result |-> "False",
                        caught |-> "none"]
                  ELSE [pc |-> "checked", username |-> username,
                        email |-> email, result |-> "none",
                        caught |-> "none"]]
    /\ UNCHANGED <<recommender_vars, last, user_projects, next_project_id,
                   users, web_vars>>

\* session.add(new_user); session.commit().  An exception of the commit is
\* caught by `except Exception` and the call returns False.
RegisterCommit(p) ==
    /\ procs[p].pc = "checked"
    /\ IF UniqueViolation(users, procs[p].username, procs[p].email)
       THEN /\ users' = users
            /\ procs' = [procs EXCEPT ![p].pc = "done", ![p].result = "False",
                                      ![p].caught = "IntegrityError"]
       ELSE /\ users' = Append(users, User(procs[p].username, procs[p].email))
            /\ procs' = [procs EXCEPT ![p].pc = "done", ![p].result = "True"]
    /\ UNCHANGED <<recommender_vars, last, user_projects, next_project_id,
                   web_vars>>

\* register_new_user takes the result and the caller is free again.
RegisterReturn(p) ==
    /\ procs[p].pc = "done"
    /\ procs' = [procs EXCEPT ![p] =
                  [pc |-> "idle", username |-> "", email |-> "",
                   result |-> "none", caught |-> "none"]]
    /\ UNCHANGED <<recommender_vars, last, user_projects, next_project_id,
                   users, web_vars>>

NextRegister ==
    \/ \E p \in Callers, username \in UsernameInputs, email \in EmailInputs :
          RegisterCheck(p, username, email)
    \/ \E p \in Callers : RegisterCommit(p)
    \/ \E p \in Callers : RegisterReturn(p)

SpecRegister == Init /\ [][NextRegister]_vars

-----------------------------------------------------------------------------
(* flask_app.py: projects and their stored recommendations.  Requests run  *)
(* one at a time.  Projects are never deleted, so the id of a project is   *)
(* its position in the table; recommendations is held in insertion order.  *)

MaxFlaskProjects == 2

\* The fields of the specification form.  An empty budget field is NoBudget.
\* Level 0 leaves every requirement at its default, level 1 sets them all.
Form(application, material_types, level) ==
    [applications |-> application,
     material_types |-> material_types,
     min_strength |-> IF level = 0 THEN 0 ELSE 50,
     min_durability |-> IF level = 0 THEN 0 ELSE 60,
     fire_resistance |-> IF level = 0 THEN 0 ELSE 300,
     water_resistance |-> IF level = 0 THEN 0 ELSE 9,
     thermal_requirement |-> IF level = 0 THEN None ELSE "low",
     eco_friendly |-> IF level = 0 THEN 0 ELSE 7,
     budget |-> IF level = 0 THEN NoBudget ELSE 150,
     installation_time |-> IF level = 0 THEN None ELSE "low",
     heat_importance |-> IF level = 0 THEN 0 ELSE 5,
     cold_importance |-> 0,
     humidity_importance |-> IF level = 0 THEN 0 ELSE 10,
     uv_importance |-> 0]

FormInputs ==
    {Form("Foundation", <<>>, 0), Form("Foundation", <<"Steel", "Wood">>, 1),
     Form("Flooring", <<>>, 1), Form("Flooring", <<"Steel", "Wood">>, 0)}

\* get_recommendations: project_specs as built from the form.  applications is
\* the bare string of the field, material_types the list of the ticked types.
form_project_specs(form) ==
    [keys |-> AllKeys,
     applications |-> Scalar(form.applications),
     material_types |-> ListOf(form.material_types),
     min_strength_mpa |-> form.min_strength,
     min_durability_years |-> form.min_durability,
     fire_resistance_requirement |-> form.fire_resistance,
     water_resistance_requirement |-> form.water_resistance,
     thermal_requirement |-> form.thermal_requirement,
     eco_friendly_requirement |-> form.eco_friendly,
     budget_constraint |-> form.budget,
     installation_time_constraint |-> form.installation_time,
     environmental_conditions |->
        [heat |-> form.heat_importance, cold |-> form.cold_importance,
         humidity |-> form.humidity_importance, uv |-> form.uv_importance]]

\* The Project row get_recommendations stores for a specification:
\* applications=[project_specs['applications']], the other columns as given.
Project(specs) ==
    [applications |-> <<specs.applications.value>>,
     material_types |-> specs.material_types.items,
     min_strength_mpa |-> specs.min_strength_mpa,
     min_durability_years |-> specs.min_durability_years,
     fire_resistance_requirement |-> specs.fire_resistance_requirement,
     water_resistance_requirement |-> specs.water_resistance_requirement,
     thermal_requirement |-> specs.thermal_requirement,
     eco_friendly_requirement |-> specs.eco_friendly_requirement,
     budget_constraint |-> specs.budget_constraint,
     installation_time_constraint |-> specs.installation_time_constraint,
     environmental_conditions |-> specs.environmental_conditions]

\* create_project: a project with the application of the form and every
\* requirement at its default.
new_project(application) ==
    Project(form_project_specs(Form(application, <<>>, 0)))

\* edit_project: the columns the POST takes from the form.  material_types is
\* not among them.
updated_project(project, form) ==
    [Project(form_project_specs(form)) EXCEPT
        !.material_types = project.material_types]

\* edit_project: project_specs as built from the row.
project_specs_of(project) ==
    [keys |-> AllKeys,
     applications |-> Scalar(project.applications[1]),
     material_types |-> ListOf(project.material_types),
     min_strength_mpa |-> project.min_strength_mpa,
     min_durability_years |-> project.min_durability_years,
     fire_resistance_requirement |-> project.fire_resistance_requirement,
     water_resistance_requirement |-> project.water_resistance_requirement,
     thermal_requirement |-> project.thermal_requirement,
     eco_friendly_requirement |-> project.eco_friendly_requirement,
     budget_constraint |-> project.budget_constraint,
     installation_time_constraint |-> project.installation_time_constraint,
     environmental_conditions |-> project.environmental_conditions]

\* for i, (_, material) in enumerate(recommended_materials.iterrows()):
\*     Recommendation(project_id, material['id'], float(total_score), i + 1)
Recommendations(project_id, rows) ==
    [i \in DOMAIN rows |->
        [project_id |-> project_id, material_id |-> rows[i].material.id,
         score |-> rows[i].total_score, rank |-> i]]

delete_recommendations_keepsAll(table, project_id) == table

\* Recommendation.query.filter_by(project_id=project_id).delete()
delete_recommendations(table, project_id) ==
    SelectSeq(table, LAMBDA r : r.project_id # project_id)

\* Recommendation.query.filter_by(project_id=project_id).order_by(rank).all()
\* without the order: the rows stored for a project.
recommendations_of(table, project_id) ==
    SelectSeq(table, LAMBDA r : r.project_id = project_id)

\* POST /projects/new
CreateProject(application) ==
    /\ Idle
    /\ Len(projects) < MaxFlaskProjects
    /\ projects' = Append(projects, new_project(application))
    /\ last' = Outcome("create_project",
                       [NoArgs EXCEPT !.method = "POST",
                                      !.project_id = Len(projects) + 1,
                                      !.project_specs = DefaultSpecs,
                                      !.n = 10],
                       "302", <<>>, <<>>, <<>>)
    /\ UNCHANGED <<recommender_vars, db_vars, recommendations,
                   selected_materials, session>>

\* POST /get_recommendations
GetRecommendations(form) ==
    /\ Idle
    /\ Len(projects) < MaxFlaskProjects
    /\ \E specs \in {form_project_specs(form)} :
       \E rows \in {recommend_materials(materials_df, rf_model, trained,
                                        specs, 10, sort_ties)} :
        /\ projects' = Append(projects, Project(specs))
        /\ recommendations' =
              recommendations \o Recommendations(Len(projects) + 1, rows)
        /\ materials_df' = CatalogAfterScoring(materials_df, specs)
        /\ last' = Outcome("get_recommendations",
                           [NoArgs EXCEPT !.method = "POST",
                                          !.project_id = Len(projects) + 1,
                                          !.project_specs = specs,
                                          !.n = 10],
                           "200", rows, <<>>, <<"calculate_material_scores">>)
    /\ UNCHANGED <<scaled_features, rf_model, trained, sort_ties>>
    /\ UNCHANGED <<db_vars, selected_materials, session>>

\* /projects/<project_id>/edit.  get_or_404 answers 404 for an unknown id; a
\* GET renders the form; a POST stores the form, scores the catalog, deletes
\* the rows of the project and stores the new ones.
EditProject(project_id, method, form) ==
    /\ Idle
    /\ IF project_id \notin DOMAIN projects
       THEN /\ last' = Outcome("edit_project",
                               [NoArgs EXCEPT !.method = method,
                                              !.project_id = project_id,
                                              !.project_specs = DefaultSpecs,
                                              !.n = 10],
                               "404", <<>>, <<>>, <<>>)
            /\ UNCHANGED <<projects, recommendations, materials_df>>
       ELSE IF method = "GET"
       THEN /\ last' = Outcome("edit_project",
                               [NoArgs EXCEPT !.method = method,
                                              !.project_id = project_id,
                                              !.project_specs = DefaultSpecs,
                                              !.n = 10],
                               "200", <<>>, <<>>, <<>>)
            /\ UNCHANGED <<projects, recommendations, materials_df>>
       ELSE \E project \in {updated_project(projects[project_id], form)} :
            \E specs \in {project_specs_of(project)} :
            \E rows \in {recommend_materials(materials_df, rf_model, trained,
                                             specs, 10, sort_ties)} :
              /\ projects' = [projects EXCEPT ![project_id] = project]
              /\ recommendations' =
                    delete_recommendations(recommendations, project_id)
                        \o Recommendations(project_id, rows)
              /\ materials_df' = CatalogAfterScoring(materials_df, specs)
              /\ last' = Outcome("edit_project",
                                 [NoArgs EXCEPT !.method = method,
                                                !.project_id = project_id,
                                                !.project_specs = specs,
                                                !.n = 10],
                                 "302", rows, <<>>,
                                 <<"calculate_material_scores">>)
    /\ UNCHANGED <<scaled_features, rf_model, trained, sort_ties>>
    /\ UNCHANGED <<db_vars, selected_materials, session>>

NextFlask ==
    \/ \E application \in {"Foundation", "Flooring"} :
          CreateProject(application)
    \/ \E form \in FormInputs :
          GetRecommendations(form)
    \/ \E project_id \in 1..(MaxFlaskProjects + 1), method \in {"GET", "POST"},
          form \in FormInputs :
          EditProject(project_id, method, form)
    \/ Return

SpecFlask == Init /\ [][NextFlask]_vars

-----------------------------------------------------------------------------
(* The comparison list.  In app.py it is the list                          *)
(* st.session_state.selected_materials, changed by the button callbacks.   *)
(* In flask_app.py it is session['comparisons'] of Flask's cookie session: *)
(* session is the content of the cookie the browser holds.  A request      *)
(* works on the session loaded from the cookie, and the cookie is written  *)
(* again only when the session is marked modified, which assigning a key   *)
(* does and changing the list under a key in place does not.               *)

\* The ids the Streamlit buttons pass: ids of catalog rows.
MaterialChoices == {1, 2, 3}

\* The ids a Flask route is asked with: 0 is the id of no material.
RouteIdInputs == {0, 1, 2}

\* list.remove(x): the list without its first x
Remove(list, x) ==
    LET i == CHOOSE j \in DOMAIN list :
                 list[j] = x /\ \A k \in 1..(j - 1) : list[k] # x
    IN  SubSeq(list, 1, i - 1) \o SubSeq(list, i + 1, Len(list))

add_to_comparison_always(list, material_id) == Append(list, material_id)

\* app.py add_to_comparison
add_to_comparison(list, material_id) ==
    IF material_id \notin Range(list) THEN Append(list, material_id) ELSE list

\* app.py remove_from_comparison
remove_from_comparison(list, material_id) ==
    IF material_id \in Range(list) THEN Remove(list, material_id) ELSE list

\* app.py clear_comparison
clear_comparison == <<>>

\* flask_app.py add_to_comparison, and the same lines of material_detail: the
\* session the handler leaves, and whether it is marked modified.
flask_add_to_comparison(cookie, material_id) ==
    LET created == "comparisons" \notin DOMAIN cookie
        opened == IF created THEN [comparisons |-> <<>>] ELSE cookie
    IN  [session |-> [opened EXCEPT !.comparisons =
                         add_to_comparison(@, material_id)],
         modified |-> created]

\* flask_app.py remove_from_comparison
flask_remove_from_comparison(cookie, material_id) ==
    IF "comparisons" \in DOMAIN cookie
       /\ material_id \in Range(cookie.comparisons)
    THEN [session |-> [cookie EXCEPT !.comparisons = Remove(@, material_id)],
          modified |-> FALSE]
    ELSE [session |-> cookie, modified |-> FALSE]

\* flask_app.py clear_comparisons
flask_clear_comparisons(cookie) ==
    IF "comparisons" \in DOMAIN cookie
    THEN [session |-> [cookie EXCEPT !.comparisons = <<>>], modified |-> TRUE]
    ELSE [session |-> cookie, modified |-> FALSE]

\* The cookie after the response: the session of the request if it is marked
\* modified, the cookie the request came with otherwise.
save_session(cookie, request) ==
    IF request.modified THEN request.session ELSE cookie

AddToComparison(material_id) ==
    /\ Idle
    /\ selected_materials' = add_to_comparison(selected_materials, material_id)
    /\ last' = Outcome("add_to_comparison", [NoArgs EXCEPT !.material_id = material_id],
                       None, <<>>, <<>>, <<>>)
    /\ UNCHANGED <<recommender_vars, db_vars, projects, recommendations,
                   session>>

RemoveFromComparison(material_id) ==
    /\ Idle
    /\ selected_materials' =
          remove_from_comparison(selected_materials, material_id)
    /\ last' = Outcome("remove_from_comparison", [NoArgs EXCEPT !.material_id = material_id],
                       None, <<>>, <<>>, <<>>)
    /\ UNCHANGED <<recommender_vars, db_vars, projects, recommendations,
                   session>>

ClearComparison ==
    /\ Idle
    /\ selected_materials' = clear_comparison
    /\ last' = Outcome("clear_comparison", NoArgs, None, <<>>, <<>>, <<>>)
    /\ UNCHANGED <<recommender_vars, db_vars, projects, recommendations,
                   session>>

\* GET /add_to_comparison/<material_id>
FlaskAddToComparison(material_id) ==
    /\ Idle
    /\ session' = save_session(session,
                               flask_add_to_comparison(session, material_id))
    /\ last' = Outcome("flask_add_to_comparison", [NoArgs EXCEPT !.material_id = material_id],
                       "302", <<>>, <<>>, <<>>)
    /\ UNCHANGED <<recommender_vars, db_vars, projects, recommendations,
                   selected_materials>>

\* GET /material/<material_id>: .iloc[0] raises IndexError for an id that is
\* not in the catalog, before the session is touched.
MaterialDetail(material_id) ==
    /\ Idle
    /\ IF RowsWithId(generate_material_database, material_id) = {}
       THEN /\ session' = session
            /\ last' = Outcome("material_detail", [NoArgs EXCEPT !.material_id = material_id],
                               "IndexError", <<>>, <<>>, <<>>)
       ELSE \E similar \in {get_similar_materials(materials_df,
                                scaled_features, material_id, 3, sort_ties)} :
            /\ session' = save_session(session,
                              flask_add_to_comparison(session, material_id))
            /\ last' = Outcome("material_detail", [NoArgs EXCEPT !.material_id = material_id],
                               "200", <<>>, similar.ids, similar.calls)
    /\ UNCHANGED <<recommender_vars, db_vars, projects, recommendations,
                   selected_materials>>

\* GET /remove_from_comparison/<material_id>
FlaskRemoveFromComparison(material_id) ==
    /\ Idle
    /\ session' = save_session(session,
                      flask_remove_from_comparison(session, material_id))
    /\ last' = Outcome("flask_remove_from_comparison",
                       [NoArgs EXCEPT !.material_id = material_id], "302", <<>>, <<>>, <<>>)
    /\ UNCHANGED <<recommender_vars, db_vars, projects, recommendations,
                   selected_materials>>

\* GET /clear_comparisons
FlaskClearComparisons ==
    /\ Idle
    /\ session' = save_session(session, flask_clear_comparisons(session))
    /\ last' = Outcome("flask_clear_comparisons", NoArgs, "302",
                       <<>>, <<>>, <<>>)
    /\ UNCHANGED <<recommender_vars, db_vars, projects, recommendations,
                   selected_materials>>

NextComparison ==
    \/ \E material_id \in MaterialChoices : AddToComparison(material_id)
    \/ \E material_id \in MaterialChoices : RemoveFromComparison(material_id)
    \/ ClearComparison
    \/ \E material_id \in RouteIdInputs : FlaskAddToComparison(material_id)
    \/ \E material_id \in RouteIdInputs : MaterialDetail(material_id)
    \/ \E material_id \in RouteIdInputs :
          FlaskRemoveFromComparison(material_id)
    \/ FlaskClearComparisons
    \/ Return

SpecComparison == Init /\ [][NextComparison]_vars

-----------------------------------------------------------------------------
(* Properties of the scoring engine *)

Scored == last.op = "calculate_material_scores"

\* how often row r occurs in catalog df / material m among the scored rows
CountIn(df, r) == Cardinality({i \in DOMAIN df : df[i] = r})

CountScored(rows, m) == Cardinality({i \in DOMAIN rows : rows[i].material = m})

\* C1: calculate_material_scores returns every catalog row exactly once (the
\* scored rows are a permutation of the catalog, nothing dropped, nothing
\* duplicated) and total_score never increases from one row to the next.
C1_PermutationSortedDescending ==
    Scored =>
        /\ Len(last.rows) = Len(materials_df)
        /\ \A m \in Range(materials_df) :
              CountScored(last.rows, m) = CountIn(materials_df, m)
        /\ \A i \in DOMAIN last.rows : last.rows[i].material \in Range(materials_df)
        /\ \A i \in 1..(Len(last.rows) - 1) :
              last.rows[i].total_score >= last.rows[i + 1].total_score

\* A scored catalog of two rows whose order the sort had to exchange.
C1_Witness ==
    /\ Scored
    /\ Len(last.rows) = 2
    /\ last.rows[1].total_score > last.rows[2].total_score
    /\ last.rows[1].material = materials_df[2]
    /\ last.rows[2].material = materials_df[1]

\* The criterion weights as the specification lists them, by score column.
ListedWeight ==
    [application_score |-> 5, type_score |-> 3, strength_score |-> 3,
     durability_score |-> 3, fire_score |-> 2, water_score |-> 2,
     thermal_score |-> 2, eco_score |-> 2, cost_score |-> 4,
     weather_score |-> 3, install_score |-> 2]

\* sum over the active criteria of weight x sub-score, from the returned row
ListedSum(row) ==
    SumSet([c \in DOMAIN row.scores |-> ListedWeight[c] * row.scores[c]],
           DOMAIN row.scores)

\* C2 as stated: total_score is 10 times the weighted sum of the active
\* sub-scores divided by the constant 29.
C2_DivisorIs29 ==
    Scored =>
        \A i \in DOMAIN last.rows :
            last.rows[i].total_score = (10 * ListedSum(last.rows[i])) \div 29

\* C2 amended: total_score is 10 times the weighted sum of the active
\* sub-scores divided by the constant 33 (the sum of the twelve entries of
\* the weights table), whichever criteria are active.
C2_DivisorIs33 ==
    Scored =>
        \A i \in DOMAIN last.rows :
            last.rows[i].total_score = (10 * ListedSum(last.rows[i])) \div 33

\* A scored row with all eleven criteria active and one with a single one.
C2_Witness ==
    /\ Scored
    /\ Len(last.rows) = 2
    /\ Cardinality(DOMAIN last.rows[1].scores) = 11
    /\ last.rows[1].total_score > last.rows[2].total_score
    /\ last.rows[2].total_score > 0

AllCriteriaActive(row) == DOMAIN row.scores = DOMAIN ListedWeight

SubScoresInRange(row) ==
    \A c \in DOMAIN row.scores :
        row.scores[c] >= 0 /\ row.scores[c] <= 10 * SCALE

\* C3: when all eleven criteria are active and every sub-score of a material
\* lies in [0, 10], its total_score lies in [0, 10].
C3_TotalWithinTen ==
    Scored =>
        \A i \in DOMAIN last.rows :
            (AllCriteriaActive(last.rows[i]) /\ SubScoresInRange(last.rows[i]))
                => /\ last.rows[i].total_score >= 0
                   /\ last.rows[i].total_score <= 10 * SCALE

OnlyApplicationsActive(row) == DOMAIN row.scores = {"application_score"}

-----------------------------------------------------------------------------
(* Properties of the recommender *)

Recommended == last.op = "recommend_materials"

Similar == last.op = "get_similar_materials"

CatalogIds(df) == {df[i].id : i \in DOMAIN df}

\* C5: for n >= 0 recommend_materials(spec, n) returns exactly
\* min(n, catalog size) rows, and they are the first rows, in the same order,
\* of what calculate_material_scores returns for that specification: sorted
\* by total_score descending; n above the catalog size gives the whole scored
\* catalog and no error.
C5_RecommendIsScoredPrefix ==
    (Recommended /\ last.args.n >= 0) =>
        /\ last.result = "ok"
        /\ Len(last.rows) = Min2(last.args.n, Len(materials_df))
        /\ \A scored \in {calculate_material_scores(materials_df,
                                                     last.args.project_specs,
                                                     sort_ties)} :
              \A i \in DOMAIN last.rows : last.rows[i] = scored[i]
        /\ \A i \in 1..(Len(last.rows) - 1) :
              last.rows[i].total_score >= last.rows[i + 1].total_score

\* n = 3 on the catalog of 15: three rows, the first scoring above the last.
C5_Witness ==
    /\ Recommended
    /\ last.args.n = 3
    /\ Len(last.rows) = 3
    /\ last.rows[1].total_score > last.rows[3].total_score

\* C6: whatever train_regression_model calls came before, successful or
\* failed, recommend_materials returns what it returns on the recommender as
\* constructed (no model, not trained).
C6_RecommendIgnoresTraining ==
    Recommended =>
        last.rows = recommend_materials(generate_material_database, NoModel,
                                        FALSE, last.args.project_specs,
                                        last.args.n, sort_ties)

\* A recommendation made with a trained model in place.
C6_Witness ==
    /\ Recommended
    /\ trained
    /\ rf_model.fitted
    /\ Len(last.rows) >= 2
    /\ last.rows[1].material.id # materials_df[1].id

\* C7: for a material id of the catalog and 1 <= k < catalog size,
\* get_similar_materials(id, k) returns exactly k pairwise distinct ids, all
\* of the catalog, none equal to the queried id.
C7_SimilarAreKOthers ==
    (/\ Similar
     /\ last.args.material_id \in CatalogIds(materials_df)
     /\ last.args.n >= 1
     /\ last.args.n < Len(materials_df)) =>
        /\ last.result = "ok"
        /\ Len(last.ids) = last.args.n
        /\ \A i, j \in DOMAIN last.ids : i # j => last.ids[i] # last.ids[j]
        /\ \A i \in DOMAIN last.ids :
              /\ last.ids[i] \in CatalogIds(materials_df)
              /\ last.ids[i] # last.args.material_id

\* Tempered Glass (id 8) with k = 3.
C7_Witness ==
    /\ Similar
    /\ last.args.material_id = 8
    /\ last.args.n = 3
    /\ Len(last.ids) = 3

\* C8 as stated: get_similar_materials with k <= 0 ends in an error and
\* returns no list.
C8_NonPositiveKIsError ==
    (Similar /\ last.args.n <= 0) => last.result # "ok"

\* C8 amended: k < 0 ends in an error and returns no list; k = 0 with an id
\* of the catalog returns the empty list without an error.
C8_NegativeKIsError ==
    Similar =>
        /\ last.args.n < 0 => (last.result # "ok" /\ last.ids = <<>>)
        /\ (last.args.n = 0 /\ last.args.material_id \in CatalogIds(materials_df))
              => (last.result = "ok" /\ last.ids = <<>>)

\* k = -1 with an id of the catalog: the neighbour search rejects the query.
C8_Witness ==
    /\ Similar
    /\ last.args.n = -1
    /\ last.args.material_id \in CatalogIds(materials_df)
    /\ last.result = "ValueError"

\* C9: get_similar_materials with an id that is not in the catalog ends in a
\* lookup error before any neighbour search is made, returns no ids and
\* leaves the recommender's state unchanged.
C9_UnknownIdIsLookupError ==
    [][(/\ last'.op = "get_similar_materials"
        /\ last'.args.material_id \notin CatalogIds(materials_df))
          => /\ last'.result = "IndexError"
             /\ last'.ids = <<>>
             /\ last'.calls = <<>>
             /\ UNCHANGED <<materials_df, scaled_features, rf_model, trained>>]_vars

\* An unknown id asked of a recommender that has been trained.
C9_Witness ==
    /\ Similar
    /\ last.args.material_id \notin CatalogIds(materials_df)
    /\ last.result = "IndexError"
    /\ trained

\* C10: train_regression_model with fewer than 5 specifications or fewer
\* than 5 ratings returns False without raising and changes nothing: trained
\* and rf_model keep their values.
C10_ShortHistoryIsNoOp ==
    [][(/\ last'.op = "train_regression_model"
        /\ (last'.args.n_specs < 5 \/ last'.args.n_ratings < 5))
          => /\ last'.result = "False"
             /\ rf_model' = rf_model
             /\ trained' = trained]_vars

\* A short history offered after a successful training: the fitted model is
\* still in place.
C10_Witness ==
    /\ last.op = "train_regression_model"
    /\ last.args.n_specs = 4
    /\ last.args.n_ratings >= 5
    /\ last.result = "False"
    /\ trained
    /\ rf_model.fitted

Predicted == last.op = "predict_material_ratings"

CountRated(rows, m) == Cardinality({i \in DOMAIN rows : rows[i].material = m})

\* C11: after a successful train_regression_model (trained is set and the
\* forest in place is fitted), predict_material_ratings for a specification
\* whose features the forest takes returns the whole catalog, one row per
\* material, each with a predicted rating, sorted by predicted rating
\* descending; before any successful training it returns None.
C11_PredictRanksCatalog ==
    Predicted =>
        /\ ~trained => last.result = "None"
        /\ (trained /\ rf_model.fitted /\ last.args.accepted) =>
              /\ last.result = "ok"
              /\ Len(last.rows) = Len(materials_df)
              /\ \A m \in Range(materials_df) : CountRated(last.rows, m) = 1
              /\ \A i \in 1..(Len(last.rows) - 1) :
                    last.rows[i].predicted_rating
                        >= last.rows[i + 1].predicted_rating

ScoreColumnNames ==
    {"total_score", "predicted_rating"} \cup DOMAIN ListedWeight

\* C12: calculate_material_scores, recommend_materials and
\* get_similar_materials leave the catalog unchanged: after any sequence of
\* calls the recommender's materials table has the rows, the columns (no
\* score column) and the values it had after construction, and the scores are
\* in the returned rows only.
C12_CatalogUnchanged ==
    /\ materials_df = generate_material_database
    /\ \A i \in DOMAIN materials_df :
          DOMAIN materials_df[i] \cap ScoreColumnNames = {}
    /\ (Scored \/ Recommended) =>
          \A i \in DOMAIN last.rows :
              /\ "total_score" \in DOMAIN last.rows[i]
              /\ last.rows[i].material \in Range(materials_df)

\* A scoring call on the recommender's table that returned the rows in
\* another order than the catalog's, with scores.
C12_Witness ==
    /\ Scored
    /\ trained
    /\ Len(last.rows) = Len(generate_material_database)
    /\ last.rows[1].material # materials_df[1]
    /\ last.rows[1].total_score > 0

\* C13: scoring is deterministic and idempotent.  Whatever scoring,
\* recommendation, similarity, training or prediction calls came before,
\* calculate_material_scores on the recommender's table returns what the same
\* call returns right after construction: the same materials in the same
\* order with the same total_score values, so any two calls with the same
\* specification return the same.
C13_ScoringIsIdempotent ==
    Scored =>
        \A first \in {calculate_material_scores(generate_material_database,
                                                 last.args.project_specs,
                                                 sort_ties)} :
            /\ Len(last.rows) = Len(first)
            /\ \A i \in DOMAIN last.rows :
                  /\ last.rows[i].material = first[i].material
                  /\ last.rows[i].total_score = first[i].total_score

\* A scoring call made when a model has been trained, with rows of equal
\* total_score in the result.
C13_Witness ==
    /\ Scored
    /\ trained
    /\ rf_model.fitted
    /\ \E i \in 1..(Len(last.rows) - 1) :
          last.rows[i].total_score = last.rows[i + 1].total_score
    /\ last.rows[1].total_score > last.rows[Len(last.rows)].total_score

\* A specification that asks for applications only: no preferred types, every
\* minimum requirement 0, thermal, budget and installation not set, every
\* environmental importance 0.
OnlyApplicationsRequested(specs) ==
    /\ ~Truthy(Get(specs, "material_types", ListOf(<<>>)))
    /\ \A key \in {"min_strength_mpa", "min_durability_years",
                    "fire_resistance_requirement",
                    "water_resistance_requirement",
                    "eco_friendly_requirement"} : Get(specs, key, 0) = 0
    /\ Get(specs, "thermal_requirement", None) = None
    /\ Get(specs, "budget_constraint", NoBudget) = NoBudget
    /\ Get(specs, "installation_time_constraint", None) = None
    /\ \A c \in DOMAIN Get(specs, "environmental_conditions", EmptyDict) :
          specs["environmental_conditions"][c] = 0

\* C14: for a specification in which only applications is active the
\* ranking by total_score is the ranking by application_match: for any two
\* materials a and b, total_score(a) > total_score(b) exactly when
\* application_match(a) > application_match(b), and equal application_match
\* gives equal total_score.
C14_ApplicationOnlyRanking ==
    (Scored /\ OnlyApplicationsRequested(last.args.project_specs)) =>
        \A i, j \in DOMAIN last.rows :
            /\ (last.rows[i].total_score > last.rows[j].total_score)
                  <=> (last.rows[i].scores["application_score"]
                          > last.rows[j].scores["application_score"])
            /\ (last.rows[i].scores["application_score"]
                    = last.rows[j].scores["application_score"])
                  => last.rows[i].total_score = last.rows[j].total_score

\* Applications only, all other keys present at their "not set" values, and
\* two materials matching a different share of the requested applications.
C14_Witness ==
    /\ Scored
    /\ OnlyApplicationsRequested(last.args.project_specs)
    /\ last.args.project_specs.keys = AllKeys
    /\ Len(last.rows) = 2
    /\ last.rows[1].scores["application_score"]
           > last.rows[2].scores["application_score"]
    /\ last.rows[2].scores["application_score"] > 0
    /\ last.rows[1].material = materials_df[2]

\* the requirements whose sentinel is 0
ZeroSentinelKeys ==
    {"min_strength_mpa", "min_durability_years", "fire_resistance_requirement",
     "water_resistance_requirement", "eco_friendly_requirement"}

\* key is present in the specification and holds its sentinel value
AtSentinel(specs, key) ==
    /\ key \in specs.keys
    /\ IF key = "environmental_conditions"
       THEN /\ DOMAIN specs[key] = Range(get_weather_properties)
            /\ \A c \in DOMAIN specs[key] : specs[key][c] = 0
       ELSE specs[key] = 0

\* the same specification with the key left out
WithoutKey(specs, key) == [specs EXCEPT !.keys = @ \ {key}]

\* C15: a requirement at its sentinel value contributes nothing.  A
\* specification with min_strength_mpa, min_durability_years,
\* fire_resistance_requirement, water_resistance_requirement or
\* eco_friendly_requirement at 0, or with environmental_conditions whose four
\* importances are all 0, gives every material the total_score that the same
\* specification with that key left out gives it, and adds no score column
\* for it.
C15_SentinelContributesNothing ==
    Scored =>
        \A key \in ZeroSentinelKeys \cup {"environmental_conditions"} :
            AtSentinel(last.args.project_specs, key) =>
                \A i \in DOMAIN last.rows :
                    /\ last.rows[i].total_score =
                           Normalize(WeightedSum(last.rows[i].material,
                                                 WithoutKey(last.args.project_specs,
                                                            key)))
                    /\ DOMAIN last.rows[i].scores =
                           ActiveColumns(WithoutKey(last.args.project_specs, key))

\* min_strength_mpa = 0 and all importances 0 in a specification that keeps
\* the durability criterion active, scored on a material of positive total.
C15_Witness ==
    /\ Scored
    /\ AtSentinel(last.args.project_specs, "min_strength_mpa")
    /\ AtSentinel(last.args.project_specs, "environmental_conditions")
    /\ Len(last.rows) >= 1
    /\ "durability_score" \in DOMAIN last.rows[1].scores
    /\ "strength_score" \notin DOMAIN last.rows[1].scores
    /\ last.rows[1].material.strength_mpa > 0
    /\ last.rows[1].total_score > 0

\* applications = [Foundation], min_strength_mpa = 50, budget_constraint =
\* 150 and no other key
FoundationScenario ==
    MkSpecs(ListOf(<<"Foundation">>), {"strength", "cost"}, 1, FALSE)

\* the total of a material that fully satisfies the three active criteria
FullScenarioTotal == (((5 + 3 + 4) * 10 * SCALE) * 10) \div 33

\* C16: on the built-in catalog of 15 with applications = [Foundation],
\* min_strength_mpa = 50 and budget_constraint = 150, High-Strength Concrete
\* (id 2, 60 MPa, cost 180) gets strength sub-score 10 and cost sub-score
\* 10 * 150 / 180 < 10; Standard Portland Cement Concrete (id 1, 25 MPa, cost
\* 110) gets strength sub-score 10 * 25 / 50 < 10 and cost sub-score 10; both
\* totals are strictly below the total of a material that fully satisfies
\* the three criteria; High-Strength Concrete is first and Standard Portland
\* Cement Concrete second.
C16_FoundationScenario ==
    (Scored /\ last.args.project_specs = FoundationScenario) =>
        /\ Len(last.rows) = 15
        /\ last.rows[1].material.id = 2
        /\ last.rows[1].material.strength_mpa = 60
        /\ last.rows[1].material.cost_per_unit = 180
        /\ DOMAIN last.rows[1].scores =
               {"application_score", "strength_score", "cost_score"}
        /\ last.rows[1].scores["strength_score"] = 10 * SCALE
        /\ last.rows[1].scores["cost_score"] = (10 * SCALE * 150) \div 180
        /\ last.rows[1].scores["cost_score"] < 10 * SCALE
        /\ last.rows[2].material.id = 1
        /\ last.rows[2].material.strength_mpa = 25
        /\ last.rows[2].material.cost_per_unit = 110
        /\ last.rows[2].scores["strength_score"] = (10 * SCALE * 25) \div 50
        /\ last.rows[2].scores["strength_score"] < 10 * SCALE
        /\ last.rows[2].scores["cost_score"] = 10 * SCALE
        /\ last.rows[1].total_score < FullScenarioTotal
        /\ last.rows[2].total_score < FullScenarioTotal
        /\ last.rows[1].total_score > last.rows[2].total_score
        /\ \A i \in 3..Len(last.rows) :
              last.rows[2].total_score > last.rows[i].total_score

\* The scenario scored on the recommender's table.
C16_Witness ==
    /\ Scored
    /\ last.args.project_specs = FoundationScenario
    /\ materials_df = generate_material_database
    /\ Len(last.rows) = 15
    /\ last.rows[1].total_score > 0

\* C17: ties are broken stably: two materials of equal total_score appear in
\* the output of calculate_material_scores in the relative order they have in
\* the input catalog (whose ids are in increasing order).
C17_TiesAreStable ==
    Scored =>
        \A i, j \in DOMAIN last.rows :
            (i < j /\ last.rows[i].total_score = last.rows[j].total_score)
                => last.rows[i].material.id < last.rows[j].material.id

\* C18 as stated: recommend_materials called without n returns exactly 10
\* scored materials on a catalog of at least 10.
C18_DefaultIsTen ==
    (Recommended /\ ~last.args.n_given /\ Len(materials_df) >= 10) =>
        Len(last.rows) = 10

\* C18 amended: recommend_materials called without n uses the default
\* n = 5: on a catalog of at least 5 materials it returns exactly 5 scored
\* materials, the first 5 of the scored catalog.
C18_DefaultIsFive ==
    (Recommended /\ ~last.args.n_given /\ Len(materials_df) >= 5) =>
        /\ Len(last.rows) = 5
        /\ \A scored \in {calculate_material_scores(materials_df,
                                                     last.args.project_specs,
                                                     sort_ties)} :
              \A i \in DOMAIN last.rows : last.rows[i] = scored[i]

\* A call without n on the catalog of 15.
C18_Witness ==
    /\ Recommended
    /\ ~last.args.n_given
    /\ Len(materials_df) = 15
    /\ Len(last.rows) = 5
    /\ last.rows[1].total_score > last.rows[5].total_score

\* the applications a specification asks for, as a list
RequestedApplications(specs) ==
    IF "applications" \notin specs.keys THEN <<>>
    ELSE IF specs.applications.islist THEN specs.applications.items
    ELSE <<specs.applications.value>>

PairwiseDistinct(s) == \A i, j \in DOMAIN s : i # j => s[i] # s[j]

\* C19: the application sub-score is always present and equals
\* 10 * (number of requested applications the material lists)
\* / max(1, number of requested applications); a bare value counts as a list
\* of one, so it scores 10 or 0; an empty request gives every material 0; and
\* with pairwise distinct requested applications the sub-score lies in
\* [0, 10].
C19_ApplicationMatch ==
    Scored =>
        \A req \in {RequestedApplications(last.args.project_specs)} :
            \A i \in DOMAIN last.rows :
                /\ "application_score" \in DOMAIN last.rows[i].scores
                /\ last.rows[i].scores["application_score"] =
                       (10 * SCALE
                          * Cardinality({k \in DOMAIN req :
                               req[k] \in last.rows[i].material.applications}))
                       \div (IF Len(req) = 0 THEN 1 ELSE Len(req))
                /\ ~last.args.project_specs.applications.islist =>
                       /\ Len(req) = 1
                       /\ last.rows[i].scores["application_score"]
                              \in {0, 10 * SCALE}
                /\ req = <<>> => last.rows[i].scores["application_score"] = 0
                /\ PairwiseDistinct(req) =>
                       /\ last.rows[i].scores["application_score"] >= 0
                       /\ last.rows[i].scores["application_score"] <= 10 * SCALE

\* A bare application that one material lists and the other does not.
C19_Witness ==
    /\ Scored
    /\ ~last.args.project_specs.applications.islist
    /\ Len(last.rows) = 2
    /\ last.rows[1].scores["application_score"] = 10 * SCALE
    /\ last.rows[2].scores["application_score"] = 0
    /\ Cardinality(last.rows[1].material.applications) > 1

\* the five criteria scored by the ratio to a minimum requirement
RatioCriteria ==
    {[col |-> "strength_score", key |-> "min_strength_mpa",
      field |-> "strength_mpa"],
     [col |-> "durability_score", key |-> "min_durability_years",
      field |-> "durability_years"],
     [col |-> "fire_score", key |-> "fire_resistance_requirement",
      field |-> "fire_resistance_hours"],
     [col |-> "water_score", key |-> "water_resistance_requirement",
      field |-> "water_resistance"],
     [col |-> "eco_score", key |-> "eco_friendly_requirement",
      field |-> "eco_friendly_score"]}

\* the requirement r of a specification for a key, 0 when the key is absent
Requirement(specs, key) == IF key \in specs.keys THEN specs[key] ELSE 0

\* C20: each of strength, durability, fire resistance, water resistance and
\* eco-friendliness with requirement r is active exactly when r > 0, and then
\* its sub-score is 10 if the material's value is >= r and 10 * value / r
\* otherwise; it lies in [0, 10] however far the value exceeds r.
C20_RatioCriteria ==
    Scored =>
        \A c \in RatioCriteria :
            \A r \in {Requirement(last.args.project_specs, c.key)} :
                \A i \in DOMAIN last.rows :
                    /\ (c.col \in DOMAIN last.rows[i].scores) <=> (r > 0)
                    /\ r > 0 =>
                          /\ last.rows[i].scores[c.col] =
                                 IF last.rows[i].material[c.field] >= r
                                 THEN 10 * SCALE
                                 ELSE (10 * SCALE * last.rows[i].material[c.field])
                                          \div r
                          /\ last.rows[i].scores[c.col] >= 0
                          /\ last.rows[i].scores[c.col] <= 10 * SCALE

\* Strength required: one material far above the requirement, one below it.
C20_Witness ==
    /\ Scored
    /\ Requirement(last.args.project_specs, "min_strength_mpa") > 0
    /\ \E i, j \in DOMAIN last.rows :
          /\ last.rows[i].material.strength_mpa
                 > 2 * Requirement(last.args.project_specs, "min_strength_mpa")
          /\ last.rows[i].scores["strength_score"] = 10 * SCALE
          /\ last.rows[j].scores["strength_score"] > 0
          /\ last.rows[j].scores["strength_score"] < 10 * SCALE

\* the budget of a specification, NoBudget when it is None or the key absent
BudgetOf(specs) ==
    IF "budget_constraint" \in specs.keys THEN specs.budget_constraint
    ELSE NoBudget

\* C21: the cost criterion is active exactly when budget_constraint is set
\* (a budget of 0 included); then the cost sub-score is 10 if cost_per_unit
\* <= budget and 10 * budget / cost_per_unit otherwise, and for a budget >= 0
\* and a positive cost it lies in [0, 10].
C21_CostCriterion ==
    Scored =>
        \A budget \in {BudgetOf(last.args.project_specs)} :
            \A i \in DOMAIN last.rows :
                /\ ("cost_score" \in DOMAIN last.rows[i].scores)
                      <=> (budget # NoBudget)
                /\ budget # NoBudget =>
                      /\ last.rows[i].scores["cost_score"] =
                             IF last.rows[i].material.cost_per_unit <= budget
                             THEN 10 * SCALE
                             ELSE (10 * SCALE * budget)
                                      \div last.rows[i].material.cost_per_unit
                      /\ (budget >= 0 /\ last.rows[i].material.cost_per_unit > 0)
                            => /\ last.rows[i].scores["cost_score"] >= 0
                               /\ last.rows[i].scores["cost_score"] <= 10 * SCALE

\* A budget of 0: the criterion is active and a material of positive cost
\* scores 0 on it.
C21_Witness ==
    /\ Scored
    /\ BudgetOf(last.args.project_specs) = 0
    /\ \E i \in DOMAIN last.rows :
          /\ last.rows[i].material.cost_per_unit > 0
          /\ last.rows[i].scores["cost_score"] = 0

BudgetInputs == {0, 1, 150, 10000}

CostInputs == {1, 18, 110, 4500}

\* C22 as stated: there are a budget and a positive cost_per_unit (one of
\* the catalog or another), the cost very small relative to the budget, for
\* which the cost sub-score exceeds 10.
C22_CostCanExceedTen ==
    \E budget \in BudgetInputs,
       cost \in CostInputs
                \cup {materials_df[i].cost_per_unit : i \in DOMAIN materials_df} :
        cost_score([cost_per_unit |-> cost],
                   [keys |-> {"budget_constraint"},
                    budget_constraint |-> budget]) > 10 * SCALE

\* C22 amended: the cost sub-score never exceeds 10.  A positive
\* cost_per_unit that is within the budget, however small relative to it,
\* gives exactly 10, and a cost above the budget gives less than 10.
C22_CostNeverExceedsTen ==
    (Scored /\ BudgetOf(last.args.project_specs) # NoBudget) =>
        \A i \in DOMAIN last.rows :
            /\ last.rows[i].scores["cost_score"] <= 10 * SCALE
            /\ last.rows[i].material.cost_per_unit
                  <= BudgetOf(last.args.project_specs)
                  => last.rows[i].scores["cost_score"] = 10 * SCALE
            /\ last.rows[i].material.cost_per_unit
                  > BudgetOf(last.args.project_specs)
                  => last.rows[i].scores["cost_score"] < 10 * SCALE

\* A material whose cost is less than a hundredth of the budget.
C22_Witness ==
    /\ Scored
    /\ BudgetOf(last.args.project_specs) # NoBudget
    /\ \E i \in DOMAIN last.rows :
          /\ last.rows[i].material.cost_per_unit > 0
          /\ 100 * last.rows[i].material.cost_per_unit
                 < BudgetOf(last.args.project_specs)
          /\ last.rows[i].scores["cost_score"] = 10 * SCALE

\* thermal_requirement of a specification, None when absent
ThermalOf(specs) ==
    IF "thermal_requirement" \in specs.keys THEN specs.thermal_requirement
    ELSE None

\* C23: the thermal criterion is active exactly when thermal_requirement is
\* set; "low" gives 10 - thermal_conductivity / 10 and "high" gives
\* thermal_conductivity / 10, clipped to [0, 10] (Aluminum Alloy 6061,
\* conductivity 167, gets 0 for "low" and 10 for "high"); an unset
\* thermal_requirement contributes nothing.
C23_ThermalCriterion ==
    Scored =>
        \A req \in {ThermalOf(last.args.project_specs)} :
            \A i \in DOMAIN last.rows :
                \A tenth \in {(last.rows[i].material.thermal_conductivity
                                  * SCALE) \div 1000} :
                    /\ ("thermal_score" \in DOMAIN last.rows[i].scores)
                          <=> (req # None)
                    /\ req = "low" =>
                          last.rows[i].scores["thermal_score"] =
                              IF tenth >= 10 * SCALE THEN 0
                              ELSE 10 * SCALE - tenth
                    /\ req = "high" =>
                          last.rows[i].scores["thermal_score"] =
                              IF tenth >= 10 * SCALE THEN 10 * SCALE ELSE tenth
                    /\ req # None =>
                          /\ last.rows[i].scores["thermal_score"] >= 0
                          /\ last.rows[i].scores["thermal_score"] <= 10 * SCALE
                    /\ (req # None /\ last.rows[i].material.id = 10) =>
                          last.rows[i].scores["thermal_score"] =
                              IF req = "low" THEN 0 ELSE 10 * SCALE
                    /\ req = None =>
                          last.rows[i].total_score =
                              Normalize(WeightedSum(
                                  last.rows[i].material,
                                  WithoutKey(last.args.project_specs,
                                             "thermal_requirement")))

\* Aluminum Alloy 6061 scored with thermal_requirement "high" next to a
\* material of low conductivity.
C23_Witness ==
    /\ Scored
    /\ ThermalOf(last.args.project_specs) = "high"
    /\ Len(last.rows) = 2
    /\ \E i, j \in DOMAIN last.rows :
          /\ last.rows[i].material.id = 10
          /\ last.rows[i].material.thermal_conductivity = 16700
          /\ last.rows[i].scores["thermal_score"] = 10 * SCALE
          /\ last.rows[j].scores["thermal_score"] > 0
          /\ last.rows[j].scores["thermal_score"] < SCALE

\* environmental_conditions of a specification, empty when absent
EnvironmentOf(specs) ==
    IF "environmental_conditions" \in specs.keys
    THEN specs.environmental_conditions ELSE EmptyDict

\* the conditions among heat, cold, humidity, uv with importance > 0
PositiveConditions(env) ==
    {c \in DOMAIN env \cap {"heat", "cold", "humidity", "uv"} : env[c] > 0}

InstallationOf(specs) ==
    IF "installation_time_constraint" \in specs.keys
    THEN specs.installation_time_constraint ELSE None

\* C25: the installation criterion is active exactly when
\* installation_time_constraint is set; "low" gives
\* 10 - installation_complexity and any other set value gives
\* installation_complexity, not clipped; the two sub-scores of one material
\* sum to 10.
C25_InstallationCriterion ==
    Scored =>
        \A req \in {InstallationOf(last.args.project_specs)} :
            \A i \in DOMAIN last.rows :
                /\ ("install_score" \in DOMAIN last.rows[i].scores)
                      <=> (req # None)
                /\ req = "low" =>
                      last.rows[i].scores["install_score"] =
                          (10 - last.rows[i].material.installation_complexity)
                              * SCALE
                /\ (req # None /\ req # "low") =>
                      last.rows[i].scores["install_score"] =
                          last.rows[i].material.installation_complexity * SCALE
                /\ req # None =>
                      last.rows[i].scores["install_score"]
                        + SubScore("install_score", last.rows[i].material,
                                   [last.args.project_specs EXCEPT
                                       !.installation_time_constraint =
                                           IF req = "low" THEN "high" ELSE "low"])
                        = 10 * SCALE

\* "low" on a material of complexity 6: sub-score 4.
C25_Witness ==
    /\ Scored
    /\ InstallationOf(last.args.project_specs) = "low"
    /\ \E i \in DOMAIN last.rows :
          /\ last.rows[i].material.installation_complexity = 6
          /\ last.rows[i].scores["install_score"] = 4 * SCALE

\* the preferred types of a specification, as a set
PreferredTypes(specs) ==
    IF "material_types" \notin specs.keys THEN {}
    ELSE IF specs.material_types.islist THEN Range(specs.material_types.items)
    ELSE IF specs.material_types.value = "" THEN {}
    ELSE {specs.material_types.value}

\* C26: the type criterion is active exactly when material_types is
\* non-empty; a material of a preferred type gets 10 and any other 5,
\* weighted by 3, so of two materials that differ only in type the preferred
\* one has the strictly higher total_score; with no preferred type the type
\* has no influence on total_score.
C26_TypeCriterion ==
    Scored =>
        \A pref \in {PreferredTypes(last.args.project_specs)} :
            \A i \in DOMAIN last.rows :
            \A sum \in {[t \in MATERIAL_TYPES |->
                            WeightedSum([last.rows[i].material
                                            EXCEPT !.type = t],
                                        last.args.project_specs)]} :
                /\ ("type_score" \in DOMAIN last.rows[i].scores)
                      <=> (pref # {})
                /\ pref # {} =>
                      /\ last.rows[i].scores["type_score"] =
                             IF last.rows[i].material.type \in pref
                             THEN 10 * SCALE ELSE 5 * SCALE
                      /\ \A t \in pref, u \in MATERIAL_TYPES \ pref :
                            /\ sum[t] - sum[u] = 3 * 5 * SCALE
                            /\ Normalize(sum[t]) > Normalize(sum[u])
                /\ pref = {} =>
                      \A t \in MATERIAL_TYPES :
                          Normalize(sum[t]) = last.rows[i].total_score

\* A bare preferred type, one material of that type above one of another.
C26_Witness ==
    /\ Scored
    /\ PreferredTypes(last.args.project_specs) = {"Steel"}
    /\ ~last.args.project_specs.material_types.islist
    /\ Len(last.rows) = 2
    /\ last.rows[1].scores["type_score"] = 10 * SCALE
    /\ last.rows[2].scores["type_score"] = 5 * SCALE
    /\ last.rows[1].total_score > last.rows[2].total_score

-----------------------------------------------------------------------------
(* Properties of the saved projects *)

\* The table has a row with this id whose owner is not user_id.
OwnedByAnother(table, project_id, user_id) ==
    \E i \in DOMAIN table :
        table[i].id = project_id /\ table[i].user_id # user_id

\* C27: a saved project is reachable only by its owner.  get_project_by_id,
\* update_user_project and delete_user_project called with a user_id that is
\* not the owner of the project return None or False and leave the table, and
\* with it the name, the specs and the existence of the project, as it was;
\* get_user_projects(u) returns the projects whose owner is u and no other.
C27_OnlyOwnerReaches ==
    [][/\ (/\ last'.op \in {"get_project_by_id", "update_user_project",
                            "delete_user_project"}
           /\ OwnedByAnother(user_projects, last'.args.project_id,
                             last'.args.user_id))
            => /\ last'.result \in {None, "False"}
               /\ last'.rows = <<>>
               /\ user_projects' = user_projects
       /\ last'.op = "get_user_projects"
            => /\ \A k \in DOMAIN last'.rows :
                    \E i \in DOMAIN user_projects :
                        /\ user_projects[i].user_id = last'.args.user_id
                        /\ project_dict(user_projects[i]) = last'.rows[k]
               /\ \A i \in DOMAIN user_projects :
                    user_projects[i].user_id = last'.args.user_id
                        => \E k \in DOMAIN last'.rows :
                              last'.rows[k].id = user_projects[i].id
               /\ user_projects' = user_projects]_vars

\* Both users have projects and one has just tried to update a project of the
\* other.
C27_Witness ==
    /\ last.op = "update_user_project"
    /\ last.result = "False"
    /\ OwnedByAnother(user_projects, last.args.project_id, last.args.user_id)
    /\ \E i \in DOMAIN user_projects :
          user_projects[i].user_id = last.args.user_id
    /\ \E i \in DOMAIN user_projects :
          /\ user_projects[i].id = last.args.project_id
          /\ user_projects[i].project_name # last.args.project_name

-----------------------------------------------------------------------------
(* Properties of the registration *)

UsernameTaken(table, username) ==
    \E i \in DOMAIN table : table[i].username = username

EmailTaken(table, email) ==
    \E i \in DOMAIN table : table[i].email = email

\* C28: after any interleaving of concurrent register_user calls no two
\* stored users share a username and no two share an email; a call that
\* finishes while its username or its email is taken, also one that passed the
\* existence check before another call inserted, returns False, raises
\* nothing and adds no user.
C28_RegistrationKeepsUsersUnique ==
    [][/\ \A i, j \in DOMAIN users' :
            i # j => /\ users'[i].username # users'[j].username
                     /\ users'[i].email # users'[j].email
       /\ \A p \in Callers :
            (/\ procs[p].pc # "done"
             /\ procs'[p].pc = "done")
              => /\ procs'[p].result \in {"True", "False"}
                 /\ (\/ UsernameTaken(users, procs'[p].username)
                     \/ EmailTaken(users, procs'[p].email))
                      => /\ procs'[p].result = "False"
                         /\ users' = users]_vars

\* A call has lost the race: it passed the existence check, another call
\* inserted a user with the same email and another username, and the commit of
\* this call was refused.
C28_Witness ==
    \E p \in Callers :
        /\ procs[p].pc = "done"
        /\ procs[p].result = "False"
        /\ procs[p].caught = "IntegrityError"
        /\ Len(users) = 1
        /\ users[1].email = procs[p].email
        /\ users[1].username # procs[p].username
        /\ \E q \in Callers \ {p} :
              /\ procs[q].pc = "done"
              /\ procs[q].result = "True"
              /\ procs[q].email = procs[p].email

-----------------------------------------------------------------------------
(* Properties of the stored recommendations *)

\* A POST of get_recommendations or edit_project has completed.
RecommendationsStored ==
    /\ last.op \in {"get_recommendations", "edit_project"}
    /\ last.args.method = "POST"
    /\ last.result \in {"200", "302"}

\* The rows of a project are the top m of the catalog scored for specs: ranks
\* 1..m each used once, material ids pairwise distinct, every stored score the
\* score of its material, no score rising with the rank, and no material left
\* out that scores more than a stored one.
TopScored(stored, df, specs, m) ==
    \A score \in {[id \in CatalogIds(df) |->
                    ScoredRow(CHOOSE x \in Range(df) : x.id = id,
                              specs).total_score]} :
        /\ Len(stored) = m
        /\ {stored[k].rank : k \in DOMAIN stored} = 1..m
        /\ \A j, k \in DOMAIN stored :
              /\ j # k => stored[j].material_id # stored[k].material_id
              /\ stored[j].rank < stored[k].rank
                    => stored[j].score >= stored[k].score
        /\ \A k \in DOMAIN stored :
              /\ stored[k].material_id \in CatalogIds(df)
              /\ stored[k].score = score[stored[k].material_id]
              /\ \A id \in CatalogIds(df) :
                    id \notin {stored[j].material_id : j \in DOMAIN stored}
                        => score[id] <= stored[k].score

\* C29: after every completed get_recommendations or edit_project POST the
\* Recommendation rows stored for the project are exactly the current top
\* min(10, catalog size) scored materials of the project as stored: ranks 1..m
\* each used once, material ids pairwise distinct, the score never rising with
\* the rank, and no row of an earlier run left by an edit.
C29_StoredRecommendationsAreTopTen ==
    RecommendationsStored
        => \A stored \in {recommendations_of(recommendations,
                                             last.args.project_id)} :
              TopScored(stored, materials_df,
                        project_specs_of(projects[last.args.project_id]),
                        Min2(10, Len(materials_df)))

\* A project that got its recommendations with preferred types has been
\* edited to a form without requirements, and a second project has rows of
\* its own, stored before the edit.
C29_Witness ==
    /\ RecommendationsStored
    /\ last.op = "edit_project"
    /\ Len(projects) = 2
    /\ last.args.project_id = 1
    /\ recommendations_of(recommendations, 2) # <<>>
    /\ recommendations[1].project_id = 2
    /\ projects[1].material_types # <<>>
    /\ projects[1].budget_constraint = NoBudget

-----------------------------------------------------------------------------
(* Properties of the comparison list *)

\* The comparison list of the Flask session: empty while the key is not set.
ComparisonsOf(cookie) ==
    IF "comparisons" \in DOMAIN cookie THEN cookie.comparisons ELSE <<>>

\* a stands before b in the list
Before(list, a, b) ==
    \E i, j \in DOMAIN list : i < j /\ list[i] = a /\ list[j] = b

\* One operation keeps the list a list of distinct ids in the order in which
\* they came in: the ids that stay keep their order, and an id that comes in
\* stands behind all that stay.
KeepsInsertionOrder(old, new) ==
    /\ \A i, j \in DOMAIN new : i # j => new[i] # new[j]
    /\ \A a, b \in Range(old) \cap Range(new) :
          a # b => (Before(old, a, b) <=> Before(new, a, b))
    /\ \A a \in Range(new) \ Range(old), b \in Range(old) \cap Range(new) :
          Before(new, b, a)

\* What an operation named op with argument material_id may do to the list.
ComparisonStep(old, new, op, material_id, add, remove, clear) ==
    /\ KeepsInsertionOrder(old, new)
    /\ (op \in add /\ material_id \in Range(old)) => new = old
    /\ (op \in remove /\ material_id \notin Range(old)) => new = old
    /\ op \in clear => new = <<>>

\* C30: after any sequence of add, remove and clear operations the comparison
\* list, of the Streamlit session as of the Flask session, holds each
\* material id at most once and in the order of first insertion since the id
\* was last absent; adding an id that is in the list and removing one that is
\* not leave the list as it was, and clear empties it.
C30_ComparisonListKeepsOrder ==
    [][/\ ComparisonStep(selected_materials, selected_materials', last'.op,
                         last'.args.material_id, {"add_to_comparison"},
                         {"remove_from_comparison"}, {"clear_comparison"})
       /\ ComparisonStep(ComparisonsOf(session), ComparisonsOf(session'),
                         last'.op, last'.args.material_id,
                         {"flask_add_to_comparison", "material_detail"},
                         {"flask_remove_from_comparison"},
                         {"flask_clear_comparisons"})]_vars

\* Three materials were added, the first was removed and added again, so it
\* now stands last; the Flask session holds the material its list began with.
C30_Witness ==
    /\ last.op = "add_to_comparison"
    /\ last.args.material_id = 1
    /\ selected_materials = <<2, 3, 1>>
    /\ ComparisonsOf(session) = <<2>>

====
